---- MODULE Spec2Model ----
(***************************************************************************)
(* OpenTherm Manchester decoder (scripts/decode_opentherm.py) and the test *)
(* pulse synthesizer (testing/generate_pulses.py), and the two frame       *)
(* humanizers (scripts/humanize_serial_log.py, scripts/humanize_ot_log.py).*)
(*                                                                         *)
(* A pulse is <<level, duration_us>> with level 0 (LOW) or 1 (HIGH); the   *)
(* synthesizer's bool levels are Python ints (False == 0, True == 1).      *)
(* Pulse indices are the code's 0-based indices: At(s, k) is s[k].         *)
(* A 32-bit frame is kept as two 16-bit words <<hi, lo>>, frame =          *)
(* hi * 65536 + lo, because the checker's integers are 32-bit signed.      *)
(***************************************************************************)
EXTENDS Integers, Sequences, FiniteSets, TLC

VARIABLES interrupts, half_levels, i, bits, pc, result, log, given,
          hframe, hline, serial, ot, hpc,
          last_pair_key, pending_req, messages, printed, last_return

\* The decoder's variables and the humanizers'.
dvars == <<interrupts, half_levels, i, bits, pc, result, log, given>>
hvars == <<hframe, hline, serial, ot, hpc>>
\* The pair deduper's fields, the messages run has handled, the lines it has
\* printed, and the list the last call of handle_message returned.
pvars == <<last_pair_key, pending_req, messages, printed, last_return>>

vars == <<interrupts, half_levels, i, bits, pc, result, log, given,
          hframe, hline, serial, ot, hpc,
          last_pair_key, pending_req, messages, printed, last_return>>

\* ------------------------------------------------------------ constants

ONE_MIN == 300
ONE_MAX == 700
TWO_MIN == 700
TWO_MAX == 1300
GLITCH_MAX_US == 200
\* The literal 68 of the main loop and of the count check.
NUM_HALVES == 68
\* range(34) of the Manchester loop.
NUM_BITS == 34
\* The stretched-segment window of the glitch fix (700 <= d <= 1100).
STRETCH_MIN == 700
STRETCH_MAX == 1100

\* --------------------------------------------------------------- helpers

At(s, k) == s[k + 1]
Level(p) == p[1]
Dur(p) == p[2]
Last(s) == s[Len(s)]
Front(s) == SubSeq(s, 1, Len(s) - 1)

\* One printed trace line: its tag, the index it names, a duration, a count.
Ev(tag, idx, dur, n) == [tag |-> tag, idx |-> idx, dur |-> dur, n |-> n]

\* ------------------------------------------------- frames as <<hi, lo>>

RECURSIVE Pow2(_)
Pow2(n) == IF n = 0 THEN 1 ELSE 2 * Pow2(n - 1)

\* (frame >> k) & 1, for k in 0..31.
FrameBit(frame, k) ==
    IF k >= 16 THEN (frame[1] \div Pow2(k - 16)) % 2
    ELSE (frame[2] \div Pow2(k)) % 2

\* (frame << 1) | bit, for a frame below 2^31 (the fold shifts 32 times from 0).
\* The frame is bound to f so that it is evaluated once.
ShiftIn(frame, bit) ==
    CHOOSE r \in {<<(f[1] * 2 + (f[2] \div 32768)) % 65536, ((f[2] * 2) % 65536) + bit>> :
                    f \in {frame}} : TRUE

RECURSIVE Ones16(_)
Ones16(w) == IF w = 0 THEN 0 ELSE (w % 2) + Ones16(w \div 2)

\* bin(frame).count('1')
PopCount(frame) == Ones16(frame[1]) + Ones16(frame[2])

\* ------------------------------------------------------- the synthesizer

\* half(level): jitter_us = 0, so the duration is half_us.
Half(level, half_us) == <<level, half_us>>

EmitBit(bit, half_us) ==
    IF bit = 1 THEN <<Half(1, half_us), Half(0, half_us)>>
    ELSE <<Half(0, half_us), Half(1, half_us)>>

\* for i in range(31, -1, -1): emit_bit((frame >> i) & 1), from bit k down.
RECURSIVE EmitFrameBits(_, _, _)
EmitFrameBits(frame, k, half_us) ==
    IF k < 0 THEN <<>>
    ELSE EmitBit(FrameBit(frame, k), half_us) \o EmitFrameBits(frame, k - 1, half_us)

emit_halfbit_stream(frame, half_us, idle_us) ==
    <<<<0, idle_us>>>> \o EmitBit(1, half_us)
        \o EmitFrameBits(frame, 31, half_us) \o EmitBit(1, half_us)

RECURSIVE CollapseFrom(_, _)
CollapseFrom(out, rest) ==
    IF rest = <<>> THEN out
    ELSE LET p == Head(rest) IN
         IF out = <<>> \/ Level(Last(out)) # Level(p)
         THEN CollapseFrom(Append(out, p), Tail(rest))
         ELSE CollapseFrom(Append(Front(out), <<Level(p), Dur(Last(out)) + Dur(p)>>),
                           Tail(rest))

\* collapse_runs raises ValueError on a duration <= 0.
CollapseRaises(pulses) == \E k \in 1..Len(pulses) : Dur(pulses[k]) <= 0

collapse_runs(pulses) == CollapseFrom(<<>>, pulses)

\* ------------------------------------------------- decode_opentherm: parts

\* What one pass through a part of decode_opentherm leaves: the cursor, the
\* half-bit buffer, the lines printed, and whether it returned None.
Pass(ni, h, ev, returned) == [i |-> ni, h |-> h, ev |-> ev, returned |-> returned]

\* Line 73 without the test of pulse[1]'s level.
StartFixAppliesAnyNext(ints) ==
    Len(ints) > 1 /\ Level(At(ints, 0)) = 1

\* Line 73: the idle/start merge test.
StartFixApplies(ints) ==
    Len(ints) > 1 /\ Level(At(ints, 0)) = 1 /\ Level(At(ints, 1)) = 0

\* Lines 69-77 with the cursor left on the idle pulse.
StartFixFromIdle(ints) ==
    IF StartFixApplies(ints)
    THEN Pass(0, <<1>>, <<Ev("StartFix", 0, 0, 1)>>, FALSE)
    ELSE Pass(0, <<>>, <<>>, FALSE)

\* Lines 69-77.
StartFix(ints) ==
    IF StartFixApplies(ints)
    THEN Pass(1, <<1>>, <<Ev("StartFix", 0, 0, 1)>>, FALSE)
    ELSE Pass(1, <<>>, <<>>, FALSE)

\* Line 78 without the cap on the collected halves.
LoopGuardNoCap(ints, k, h) == k < Len(ints)

\* Line 78: the main loop's condition.
LoopGuard(ints, k, h) == k < Len(ints) /\ Len(h) < NUM_HALVES

\* Line 88 without the test of the next pulse's duration.
RestoreCondAnyNextDur(ints, k, h) ==
    /\ Last(h) = Level(At(ints, k + 1))
    /\ Level(At(ints, k)) # Last(h)

\* Line 88: the restore condition, given that a previous half and a next pulse exist.
RestoreCond(ints, k, h) ==
    /\ Last(h) = Level(At(ints, k + 1))
    /\ Dur(At(ints, k + 1)) >= ONE_MIN
    /\ Level(At(ints, k)) # Last(h)

\* Lines 92-95 without the 700..1100 window on the previous pulse.
StretchedPrevNoWindow(ints, k, h) ==
    /\ k > 1
    /\ Len(h) >= 2
    /\ h[Len(h) - 1] = Last(h)

\* Lines 92-95: the previous segment was stretched and counted as two halves.
StretchedPrev(ints, k, h) ==
    /\ k > 1
    /\ STRETCH_MIN <= Dur(At(ints, k - 1))
    /\ Dur(At(ints, k - 1)) <= STRETCH_MAX
    /\ Len(h) >= 2
    /\ h[Len(h) - 1] = Last(h)

\* The glitch branch without line 105: a skipped glitch leaves the cursor.
GlitchBranchNoAdvance(ints, k, h) ==
    LET level == Level(At(ints, k))
        dur == Dur(At(ints, k))
    IN  IF Len(h) > 0 /\ k + 1 < Len(ints) /\ RestoreCond(ints, k, h)
        THEN Pass(k + 1, Append(h, level), <<Ev("GlitchRestore", k, dur, 1)>>, FALSE)
        ELSE Pass(k, h, <<Ev("GlitchSkip", k, dur, 0)>>, FALSE)

\* Lines 82-106: the pulse at the cursor is shorter than GLITCH_MAX_US.
GlitchBranch(ints, k, h) ==
    LET level == Level(At(ints, k))
        dur == Dur(At(ints, k))
    IN  IF Len(h) > 0 /\ k + 1 < Len(ints)
        THEN IF RestoreCond(ints, k, h)
             THEN IF StretchedPrev(ints, k, h)
                  THEN Pass(k + 1, Append(Front(h), level),
                            <<Ev("GlitchFix", k, Dur(At(ints, k - 1)), 1),
                              Ev("GlitchRestore", k, dur, 1)>>, FALSE)
                  ELSE Pass(k + 1, Append(h, level),
                            <<Ev("GlitchRestore", k, dur, 1)>>, FALSE)
             ELSE Pass(k + 1, h, <<Ev("GlitchSkip", k, dur, 0)>>, FALSE)
        ELSE Pass(k + 1, h, <<Ev("GlitchSkip", k, dur, 0)>>, FALSE)

\* Lines 118-121 alone: the look-ahead without its tests of pulse k + 3.
FlipLookaheadNoReturn(ints, k, level) ==
    /\ ONE_MIN <= Dur(At(ints, k + 1))
    /\ Dur(At(ints, k + 1)) <= ONE_MAX
    /\ k + 2 < Len(ints)
    /\ Dur(At(ints, k + 2)) < GLITCH_MAX_US
    /\ Level(At(ints, k + 2)) # level

\* Lines 118-123: the look-ahead that stops the same-level merge at cursor k.
FlipLookahead(ints, k, level) ==
    /\ ONE_MIN <= Dur(At(ints, k + 1))
    /\ Dur(At(ints, k + 1)) <= ONE_MAX
    /\ k + 2 < Len(ints)
    /\ Dur(At(ints, k + 2)) < GLITCH_MAX_US
    /\ Level(At(ints, k + 2)) # level
    /\ k + 3 < Len(ints)
    /\ Level(At(ints, k + 3)) = level

\* The merge loop never entered: every pulse is a segment of its own.
MergeRunNone(ints, k, level, dur) == [i |-> k, dur |-> dur, ev |-> <<>>]

\* The merge loop leaving pulses shorter than GLITCH_MAX_US out of the run.
RECURSIVE MergeRunNoShort(_, _, _, _)
MergeRunNoShort(ints, k, level, dur) ==
    IF k + 1 < Len(ints) /\ Level(At(ints, k + 1)) = level
            /\ Dur(At(ints, k + 1)) >= GLITCH_MAX_US
    THEN IF FlipLookahead(ints, k, level)
         THEN [i |-> k, dur |-> dur, ev |-> <<Ev("Pattern", k + 1, 0, 0)>>]
         ELSE MergeRunNoShort(ints, k + 1, level, dur + Dur(At(ints, k + 1)))
    ELSE [i |-> k, dur |-> dur, ev |-> <<>>]

\* Lines 112-129: the merge loop; gives the cursor, the summed duration and the
\* [Pattern] line if the merge stopped at a flip pattern.
RECURSIVE MergeRun(_, _, _, _)
MergeRun(ints, k, level, dur) ==
    IF k + 1 < Len(ints) /\ Level(At(ints, k + 1)) = level
    THEN IF FlipLookahead(ints, k, level)
         THEN [i |-> k, dur |-> dur, ev |-> <<Ev("Pattern", k + 1, 0, 0)>>]
         ELSE MergeRun(ints, k + 1, level, dur + Dur(At(ints, k + 1)))
    ELSE [i |-> k, dur |-> dur, ev |-> <<>>]

\* Lines 112-132: the merge and its [Merge] line. The run is bound to m so that
\* it is computed once.
Merge(ints, k) ==
    CHOOSE r \in
        {[i |-> m.i, dur |-> m.dur,
          ev |-> m.ev \o (IF m.i # k THEN <<Ev("Merge", m.i, m.dur, 0)>> ELSE <<>>)] :
            m \in {MergeRun(ints, k, Level(At(ints, k)), Dur(At(ints, k)))}} : TRUE

\* Lines 136-140: the flip test after the merge, at cursor k.
FlipCheck(ints, k, level) ==
    /\ k + 2 < Len(ints)
    /\ Level(At(ints, k + 1)) = level
    /\ ONE_MIN <= Dur(At(ints, k + 1))
    /\ Dur(At(ints, k + 1)) <= ONE_MAX
    /\ Dur(At(ints, k + 2)) < GLITCH_MAX_US
    /\ Level(At(ints, k + 2)) # level

\* The classification with the one-half window closed at ONE_MAX.
ClassifyInclusiveOneMax(dur) ==
    IF ONE_MIN <= dur /\ dur <= ONE_MAX THEN 1
    ELSE IF TWO_MIN <= dur /\ dur <= TWO_MAX THEN 2
    ELSE 0

\* Lines 146-152 and 175-181: 1 half, 2 halves, or 0 for an invalid duration.
Classify(dur) ==
    IF ONE_MIN <= dur /\ dur < ONE_MAX THEN 1
    ELSE IF TWO_MIN <= dur /\ dur <= TWO_MAX THEN 2
    ELSE 0

\* The append without its loop: one copy whatever `halves` is.
AppendCappedOnce(h, level, halves) ==
    IF Len(h) < 68 THEN Append(h, level) ELSE h

\* Lines 154-156 and 183-185: append up to `halves` copies, while below 68.
RECURSIVE AppendCapped(_, _, _)
AppendCapped(h, level, halves) ==
    IF halves = 0 THEN h
    ELSE AppendCapped(IF Len(h) < NUM_HALVES THEN Append(h, level) ELSE h,
                      level, halves - 1)

\* Lines 161-168 with the first append under the cap as well.
AppendFlippedCapped(h, glitch_level, flipped_dur) ==
    IF ONE_MIN <= flipped_dur /\ flipped_dur < ONE_MAX
    THEN AppendCapped(h, glitch_level, 1)
    ELSE IF TWO_MIN <= flipped_dur /\ flipped_dur <= TWO_MAX
         THEN AppendCapped(h, glitch_level, 2)
         ELSE h

\* Lines 161-168: the flipped segment's halves.
AppendFlipped(h, glitch_level, flipped_dur) ==
    IF ONE_MIN <= flipped_dur /\ flipped_dur < ONE_MAX
    THEN Append(h, glitch_level)
    ELSE IF TWO_MIN <= flipped_dur /\ flipped_dur <= TWO_MAX
         THEN IF Len(Append(h, glitch_level)) < NUM_HALVES
              THEN Append(Append(h, glitch_level), glitch_level)
              ELSE Append(h, glitch_level)
         ELSE h

\* Lines 142-172: the flip branch, entered at merged cursor m from cursor k.
FlipBranch(ints, k, h) ==
    LET m == Merge(ints, k)
        level == Level(At(ints, k))
        glitch_level == Level(At(ints, m.i + 2))
        flipped_dur == Dur(At(ints, m.i + 1)) + Dur(At(ints, m.i + 2))
        halves == Classify(m.dur)
        h1 == AppendCapped(h, level, halves)
        h2 == AppendFlipped(h1, glitch_level, flipped_dur)
    IN  IF halves = 0
        THEN Pass(m.i, h, m.ev \o <<Ev("InvalidDuration", m.i, m.dur, 0)>>, TRUE)
        ELSE Pass(m.i + 3, h2,
                  m.ev \o <<Ev("Segment", k, m.dur, halves)>>
                       \o (IF Len(h2) > Len(h1)
                           THEN <<Ev("Flip", m.i + 1, flipped_dur, Len(h2) - Len(h1))>>
                           ELSE <<>>),
                  FALSE)

\* Lines 174-188: the ordinary classification of the merged segment.
ClassifyBranch(ints, k, h) ==
    LET m == Merge(ints, k)
        level == Level(At(ints, k))
        halves == Classify(m.dur)
    IN  IF halves = 0
        THEN Pass(m.i, h, m.ev \o <<Ev("InvalidDuration", m.i, m.dur, 0)>>, TRUE)
        ELSE Pass(m.i + 1, AppendCapped(h, level, halves),
                  m.ev \o <<Ev("Segment", k, m.dur, halves)>>, FALSE)

IsGlitch(ints, k) == Dur(At(ints, k)) < GLITCH_MAX_US

FlipMatches(ints, k) == FlipCheck(ints, Merge(ints, k).i, Level(At(ints, k)))

\* Lines 79-188: one iteration of the main loop.
LoopBody(ints, k, h) ==
    IF IsGlitch(ints, k) THEN GlitchBranch(ints, k, h)
    ELSE IF FlipMatches(ints, k) THEN FlipBranch(ints, k, h)
    ELSE ClassifyBranch(ints, k, h)

\* Line 191 without the test of the last half's level.
EndFixAppliesAnyLevel(h) == Len(h) = 67

\* Lines 190-193: the inferred final LOW half.
EndFixApplies(h) == Len(h) = 67 /\ h[67] = 1

\* Line 192 appending a HIGH half.
EndFixAppendsHigh(h) == IF Len(h) = 67 /\ h[67] = 1 THEN Append(h, 1) ELSE h

EndFix(h) == IF EndFixApplies(h) THEN Append(h, 0) ELSE h

\* The Manchester loop without the equal-halves test: such a pair reads as 0.
RECURSIVE ManchesterFromLenient(_, _, _)
ManchesterFromLenient(h, b, acc) ==
    IF b = 34 THEN [ok |-> TRUE, bits |-> acc, bad |-> 0]
    ELSE IF h[2 * b + 1] = 1 /\ h[2 * b + 2] = 0
         THEN ManchesterFromLenient(h, b + 1, Append(acc, 1))
         ELSE ManchesterFromLenient(h, b + 1, Append(acc, 0))

\* The Manchester loop with the two readings exchanged: (HIGH, LOW) reads as 0.
RECURSIVE ManchesterFromSwapped(_, _, _)
ManchesterFromSwapped(h, b, acc) ==
    IF b = 34 THEN [ok |-> TRUE, bits |-> acc, bad |-> 0]
    ELSE IF h[2 * b + 1] = h[2 * b + 2] THEN [ok |-> FALSE, bits |-> acc, bad |-> b]
         ELSE IF h[2 * b + 1] = 1
              THEN ManchesterFromSwapped(h, b + 1, Append(acc, 0))
              ELSE ManchesterFromSwapped(h, b + 1, Append(acc, 1))

\* Lines 200-215: the Manchester loop from bit b; the bits, or the first bit
\* position whose halves are equal.
RECURSIVE ManchesterFrom(_, _, _)
ManchesterFrom(h, b, acc) ==
    IF b = NUM_BITS THEN [ok |-> TRUE, bits |-> acc, bad |-> 0]
    ELSE LET a == h[2 * b + 1]
             c == h[2 * b + 2]
         IN  IF a = c THEN [ok |-> FALSE, bits |-> acc, bad |-> b]
             ELSE IF a = 1 /\ c = 0 THEN ManchesterFrom(h, b + 1, Append(acc, 1))
             ELSE IF a = 0 /\ c = 1 THEN ManchesterFrom(h, b + 1, Append(acc, 0))
             ELSE [ok |-> FALSE, bits |-> acc, bad |-> b]

Manchester(h) == ManchesterFrom(h, 0, <<>>)

\* The fold run over the bits from 32 down to 1: bit 32 ends up the MSB.
RECURSIVE BuildFrameLsbFirst(_, _, _)
BuildFrameLsbFirst(bs, b, frame) ==
    IF b = 33 THEN frame
    ELSE BuildFrameLsbFirst(bs, b + 1, ShiftIn(frame, At(bs, 33 - b)))

\* Lines 226-228: frame = (frame << 1) | bits[b] for b in range(1, 33).
RECURSIVE BuildFrame(_, _, _)
BuildFrame(bs, b, frame) ==
    IF b = 33 THEN frame
    ELSE BuildFrame(bs, b + 1, ShiftIn(frame, At(bs, b)))

\* Lines 218-223 alone: the parity check left out.
ValidateErrorNoParity(bs) ==
    IF At(bs, 0) # 1 THEN "InvalidStartBit"
    ELSE IF At(bs, 33) # 1 THEN "InvalidStopBit"
    ELSE ""

\* The checks of lines 218-223 in the other order: the stop bit first.
ValidateErrorStopFirst(bs) ==
    IF At(bs, 33) # 1 THEN "InvalidStopBit"
    ELSE IF At(bs, 0) # 1 THEN "InvalidStartBit"
    ELSE IF PopCount(BuildFrame(bs, 1, <<0, 0>>)) % 2 # 0 THEN "ParityError"
    ELSE ""

\* Lines 218-235: the error printed, or "" when the frame is returned.
ValidateError(bs) ==
    IF At(bs, 0) # 1 THEN "InvalidStartBit"
    ELSE IF At(bs, 33) # 1 THEN "InvalidStopBit"
    ELSE IF PopCount(BuildFrame(bs, 1, <<0, 0>>)) % 2 # 0 THEN "ParityError"
    ELSE ""

\* The return value: None, or the tuple (frame, bits).
None == [ret |-> "None", frame |-> <<>>, bits |-> <<>>]
Returned(frame, bs) == [ret |-> "tuple", frame |-> frame, bits |-> bs]
Pending == [ret |-> "pending", frame |-> <<>>, bits |-> <<>>]

\* --------------------------------------------- decode_opentherm as a whole

\* Lines 78-188: the main loop run to its end from cursor k.
RECURSIVE RunLoop(_, _, _, _)
RunLoop(ints, k, h, lg) ==
    IF LoopGuard(ints, k, h)
    THEN LET p == LoopBody(ints, k, h)
         IN  IF p.returned THEN Pass(p.i, p.h, lg \o p.ev, TRUE)
             ELSE RunLoop(ints, p.i, p.h, lg \o p.ev)
    ELSE Pass(k, h, lg, FALSE)

\* Lines 195-235: from the collected halves to the return value and error line.
Finish(h) ==
    IF Len(h) # NUM_HALVES THEN [result |-> None, error |-> "HalfCountMismatch"]
    ELSE LET m == Manchester(h)
         IN  IF ~m.ok THEN [result |-> None, error |-> "InvalidManchester"]
             ELSE IF ValidateError(m.bits) # ""
                  THEN [result |-> None, error |-> ValidateError(m.bits)]
                  ELSE [result |-> Returned(BuildFrame(m.bits, 1, <<0, 0>>), m.bits),
                        error |-> ""]

\* Lines 67-235: the return value and the kind of the error line printed.
decode_opentherm(ints) ==
    LET s == StartFix(ints)
        l == RunLoop(ints, s.i, s.h, s.ev)
    IN  IF l.returned THEN [result |-> None, error |-> "InvalidDuration"]
        ELSE Finish(EndFix(l.h))

\* ------------------------------------ decode_opentherm: the indices read

\* Line 73: the pulse indices the idle/start test reads, in the order of its
\* short-circuit evaluation.
StartFixReads(ints) ==
    IF Len(ints) > 1
    THEN {0} \cup (IF Level(At(ints, 0)) = 1 THEN {1} ELSE {})
    ELSE {}

\* Lines 85-93: the pulse indices the glitch branch reads besides the cursor's.
GlitchPulseReads(ints, k, h) ==
    IF Len(h) > 0 /\ k + 1 < Len(ints)
    THEN {k + 1} \cup (IF RestoreCond(ints, k, h) /\ k > 1 THEN {k - 1} ELSE {})
    ELSE {}

\* Lines 85-95: the half-bit indices the glitch branch reads: half_levels[-1]
\* and half_levels[-2], as indices from 0.
GlitchHalfReads(ints, k, h) ==
    IF Len(h) > 0 /\ k + 1 < Len(ints)
    THEN {Len(h) - 1}
         \cup (IF /\ RestoreCond(ints, k, h)
                  /\ k > 1
                  /\ STRETCH_MIN <= Dur(At(ints, k - 1))
                  /\ Dur(At(ints, k - 1)) <= STRETCH_MAX
                  /\ Len(h) >= 2
               THEN {Len(h) - 2} ELSE {})
    ELSE {}

\* Lines 114-123 with pulse k + 3 read whether or not it exists.
LookaheadReadsUnguarded(ints, k, level) ==
    {k + 1}
    \cup (IF /\ ONE_MIN <= Dur(At(ints, k + 1))
             /\ Dur(At(ints, k + 1)) <= ONE_MAX
             /\ k + 2 < Len(ints)
          THEN {k + 2}
               \cup (IF /\ Dur(At(ints, k + 2)) < GLITCH_MAX_US
                        /\ Level(At(ints, k + 2)) # level
                     THEN {k + 3} ELSE {})
          ELSE {})

\* Lines 114-123: the pulse indices the merge loop's look-ahead reads at
\* cursor k, in the order of its short-circuit evaluation.
LookaheadReads(ints, k, level) ==
    {k + 1}
    \cup (IF /\ ONE_MIN <= Dur(At(ints, k + 1))
             /\ Dur(At(ints, k + 1)) <= ONE_MAX
             /\ k + 2 < Len(ints)
          THEN {k + 2}
               \cup (IF /\ Dur(At(ints, k + 2)) < GLITCH_MAX_US
                        /\ Level(At(ints, k + 2)) # level
                        /\ k + 3 < Len(ints)
                     THEN {k + 3} ELSE {})
          ELSE {})

\* Lines 113-129: the pulse indices the merge loop reads from cursor k on.
RECURSIVE MergeReads(_, _, _)
MergeReads(ints, k, level) ==
    IF k + 1 < Len(ints)
    THEN {k + 1}
         \cup (IF Level(At(ints, k + 1)) = level
               THEN LookaheadReads(ints, k, level)
                    \cup (IF FlipLookahead(ints, k, level) THEN {}
                          ELSE MergeReads(ints, k + 1, level))
               ELSE {})
    ELSE {}

\* Lines 136-143: the pulse indices the flip test after the merge reads at
\* cursor m, and the flip branch after it.
FlipCheckReads(ints, m, level) ==
    IF m + 2 < Len(ints)
    THEN {m + 1}
         \cup (IF /\ Level(At(ints, m + 1)) = level
                  /\ ONE_MIN <= Dur(At(ints, m + 1))
                  /\ Dur(At(ints, m + 1)) <= ONE_MAX
               THEN {m + 2} ELSE {})
    ELSE {}

\* Lines 79-188: the pulse indices one iteration of the main loop reads.
PulseReads(ints, k, h) ==
    {k} \cup (IF IsGlitch(ints, k) THEN GlitchPulseReads(ints, k, h)
              ELSE MergeReads(ints, k, Level(At(ints, k)))
                   \cup FlipCheckReads(ints, Merge(ints, k).i, Level(At(ints, k))))

\* Lines 79-188: the half-bit indices one iteration of the main loop reads.
HalfReads(ints, k, h) ==
    IF IsGlitch(ints, k) THEN GlitchHalfReads(ints, k, h) ELSE {}

\* Line 191: the half-bit index the end fix reads.
EndFixReads(h) == IF Len(h) = 67 THEN {66} ELSE {}

\* Lines 200-223: the half-bit indices the Manchester loop reads, up to the
\* bit it fails at, and the bit indices the checks and the fold read.
ManchesterReads(h) ==
    LET m == Manchester(h)
    IN  UNION {{2 * b, 2 * b + 1} : b \in 0..(IF m.ok THEN NUM_BITS - 1 ELSE m.bad)}

BitReads(bs) ==
    {0} \cup (IF At(bs, 0) = 1 THEN {33} \cup (IF At(bs, 33) = 1 THEN 1..32 ELSE {}) ELSE {})

\* ------------------------------------- the humanizers: shared primitives

\* The value no frame, line or decoded record has yet.
Null == [none |-> TRUE]

\* One description: the text's fixed part and the values it shows.
Desc(form, args) == [form |-> form, args |-> args]

\* (v >> k) & 1 of a value below 2^16.
Bit(v, k) == (v \div Pow2(k)) % 2

\* Python's s[a:b] of a string held as a sequence of digits.
Slice(s, a, b) == SubSeq(s, a + 1, b)

\* int(b, 2) read from the last digit: the first digit weighs least.
RECURSIVE IntLsbFirst(_)
IntLsbFirst(b) ==
    IF b = <<>> THEN 0 ELSE Head(b) + 2 * IntLsbFirst(Tail(b))

\* int(b, 2): the digits of b, most significant first.
RECURSIVE BitsToInt(_)
BitsToInt(b) ==
    IF b = <<>> THEN 0 ELSE 2 * BitsToInt(Front(b)) + Last(b)

\* bin(w)[2:] of a word: its binary digits without leading zeros, "0" for 0.
RECURSIVE Digits(_)
Digits(w) == IF w < 2 THEN <<w>> ELSE Append(Digits(w \div 2), w % 2)

RECURSIVE Zeros(_)
Zeros(n) == IF n <= 0 THEN <<>> ELSE <<0>> \o Zeros(n - 1)

\* The digits of a frame: those of the high word followed by the 16 digits of
\* the low word, or those of the low word alone when the high word is 0.
FrameDigits(frame) ==
    IF frame[1] = 0 THEN Digits(frame[2])
    ELSE Digits(frame[1]) \o Zeros(16 - Len(Digits(frame[2]))) \o Digits(frame[2])

\* f"{frame:032b}": the digits, padded with zeros on the left to 32.
Format032b(frame) == Zeros(32 - Len(FrameDigits(frame))) \o FrameDigits(frame)

\* ------------------------------------------------ humanize_ot_log.py

\* decode_frame(raw): the OTFrame, with shifts of the 32-bit value carried out
\* on its words (raw >> 16 is the high word).
ot_decode_frame(raw) ==
    [raw |-> raw,
     parity |-> (raw[1] \div 32768) % 2,
     msg_type |-> (raw[1] \div 4096) % 8,
     data_id |-> raw[1] % 256,
     data |-> raw[2]]

\* value / 256.0, kept as numerator and denominator.
f8_8(value) == <<value, 256>>

s16(value) == IF Bit(value, 15) = 1 THEN value - 65536 ELSE value

s8(value) == IF Bit(value, 7) = 1 THEN value - 256 ELSE value

decode_status(data) ==
    LET master == (data \div 256) % 256
        slave == data % 256
    IN  Desc("Status",
             <<Bit(master, 0), Bit(master, 1), Bit(master, 2), Bit(master, 3),
               Bit(master, 4),
               Bit(slave, 0), Bit(slave, 1), Bit(slave, 2), Bit(slave, 3),
               Bit(slave, 4), Bit(slave, 5), Bit(slave, 6)>>)

decode_master_config(data) ==
    Desc("Master configuration", <<(data \div 256) % 256, data % 256>>)

decode_slave_config(data) ==
    LET hb == (data \div 256) % 256
    IN  Desc("Slave configuration",
             <<Bit(hb, 0), Bit(hb, 1), Bit(hb, 2), Bit(hb, 3), Bit(hb, 4), Bit(hb, 5),
               data % 256>>)

decode_app_faults(data) ==
    LET hb == (data \div 256) % 256
    IN  Desc("App fault flags",
             <<Bit(hb, 0), Bit(hb, 1), Bit(hb, 2), Bit(hb, 3), Bit(hb, 4), Bit(hb, 5),
               data % 256>>)

decode_remote_param_flags(data) ==
    LET hb == (data \div 256) % 256
        lb == data % 256
    IN  Desc("Remote parameter flags", <<Bit(hb, 0), Bit(hb, 1), Bit(lb, 0), Bit(lb, 1)>>)

decode_command(data) ==
    LET cmd == (data \div 256) % 256
        resp == data % 256
    IN  Desc("Remote command", <<cmd, resp, IF resp >= 128 THEN 1 ELSE 0>>)

decode_datetime(data) ==
    LET hb == (data \div 256) % 256
        lb == data % 256
    IN  Desc("Day/time", <<(hb \div 32) % 8, hb % 32, lb>>)

decode_date(data) == Desc("Date", <<(data \div 256) % 256, data % 256>>)

decode_year(data) == Desc("Year", <<data>>)

decode_remote_override_flags(data) ==
    LET hb == (data \div 256) % 256
        lb == data % 256
    IN  Desc("Remote override flags", <<Bit(lb, 0), Bit(lb, 1), hb>>)

\* The exception a lookup without a default raises.
Raised == Desc("KeyError", <<>>)

\* The data ids of decode_data whose line shows f8_8(data), and the text before it.
F8_8Labels ==
    [id \in {1, 8, 9, 14, 16, 17, 18, 19, 23, 24, 25, 26, 27, 28, 29, 31, 32, 34,
             36, 37, 38, 39, 56, 57, 58, 124, 125} |->
        CASE id = 1 -> "Control setpoint (CH water)"
          [] id = 8 -> "CH2 control setpoint (TsetCH2)"
          [] id = 9 -> "Remote override room setpoint"
          [] id = 14 -> "Max relative modulation setting"
          [] id = 16 -> "Room setpoint"
          [] id = 17 -> "Relative modulation level"
          [] id = 18 -> "CH water pressure"
          [] id = 19 -> "DHW flow rate"
          [] id = 23 -> "Room setpoint CH2"
          [] id = 24 -> "Room temperature"
          [] id = 25 -> "Boiler water temperature"
          [] id = 26 -> "DHW temperature"
          [] id = 27 -> "Outside temperature"
          [] id = 28 -> "Return water temperature"
          [] id = 29 -> "Solar storage temperature"
          [] id = 31 -> "Flow temperature CH2"
          [] id = 32 -> "DHW2 temperature"
          [] id = 34 -> "Boiler heat exchanger temperature"
          [] id = 36 -> "Flame current"
          [] id = 37 -> "Room temperature CH2"
          [] id = 38 -> "Relative humidity"
          [] id = 39 -> "Remote override room setpoint 2"
          [] id = 56 -> "DHW setpoint"
          [] id = 57 -> "Max CH water setpoint"
          [] id = 58 -> "OTC heat curve ratio"
          [] id = 124 -> "OpenTherm version (master)"
          [] id = 125 -> "OpenTherm version (slave)"]

\* What the chain of tests leaves when none of them matched.
NoMatch == Desc("", <<>>)

\* Lines 214-369 of decode_data: the tests on data_id that return a dedicated
\* line (the ids are distinct, so their order does not matter).
decode_data_dedicated(data_id, data) ==
    LET hb == (data \div 256) % 256
        lb == data % 256
    IN  CASE data_id = 0 -> decode_status(data)
          [] data_id = 2 -> decode_master_config(data)
          [] data_id = 3 -> decode_slave_config(data)
          [] data_id = 4 -> decode_command(data)
          [] data_id = 5 -> decode_app_faults(data)
          [] data_id = 6 -> decode_remote_param_flags(data)
          [] data_id = 15 -> Desc("Boiler capacity & min modulation", <<hb, lb>>)
          [] data_id = 20 -> decode_datetime(data)
          [] data_id = 21 -> decode_date(data)
          [] data_id = 22 -> decode_year(data)
          [] data_id = 30 -> Desc("Solar collector temperature", <<s16(data)>>)
          [] data_id = 33 -> Desc("Boiler exhaust temperature", <<s16(data)>>)
          [] data_id = 35 -> Desc("Boiler fan speed", <<hb, lb>>)
          [] data_id = 48 -> Desc("DHW setpoint bounds", <<s8(hb), s8(lb)>>)
          [] data_id = 49 -> Desc("Max CH water setpoint bounds", <<s8(hb), s8(lb)>>)
          [] data_id = 50 -> Desc("OTC heat curve ratio bounds", <<s8(hb), s8(lb)>>)
          [] data_id = 100 -> decode_remote_override_flags(data)
          [] data_id = 115 -> Desc("OEM diagnostic/service code", <<data>>)
          [] data_id = 126 -> Desc("Master product info", <<hb, lb>>)
          [] data_id = 127 -> Desc("Slave product info", <<hb, lb>>)
          [] data_id \in DOMAIN F8_8Labels ->
                Desc(F8_8Labels[data_id], <<f8_8(data)>>)
          [] OTHER -> NoMatch

\* decode_data ending in a lookup without a default in place of lines 371-382.
decode_data_no_fallback(data_id, data) ==
    IF decode_data_dedicated(data_id, data) # NoMatch
    THEN decode_data_dedicated(data_id, data)
    ELSE Raised

\* decode_data(data_id, data).
decode_data(data_id, data) ==
    LET hb == (data \div 256) % 256
        lb == data % 256
    IN  IF decode_data_dedicated(data_id, data) # NoMatch
        THEN decode_data_dedicated(data_id, data)
        ELSE IF data_id >= 128
             THEN Desc("Manufacturer-specific ID", <<data_id, data, hb, lb, f8_8(data)>>)
             ELSE Desc("Unknown/unsupported ID", <<data_id, data, f8_8(data)>>)

\* ----------------------------------- humanize_ot_log.py: PairDeduper

\* Python's None in the deduper's two fields, which otherwise hold tuples.
Nothing == <<>>

\* A message as handle_message reads it: msg.get of the four keys.
Message(direction, msg_type, data_id, message) ==
    [direction |-> direction, msg_type |-> msg_type, data_id |-> data_id,
     message |-> message]

\* _make_key without the "message" field.
make_key_no_message(msg) == <<msg.direction, msg.msg_type, msg.data_id>>

\* Lines 428-437: _make_key.
make_key(msg) == <<msg.direction, msg.msg_type, msg.data_id, msg.message>>

\* Lines 421-426: __init__.
NewDeduper == [last_pair_key |-> Nothing, pending_req |-> Nothing]

\* What a call of handle_message leaves: the returned lines and the fields.
Handled(lines, pending, last) ==
    [lines |-> lines, pending_req |-> pending, last_pair_key |-> last]

\* handle_message with the held request kept when another message flushes it.
handle_message_keeps_pending(self, msg, printable_line) ==
    LET direction == msg.direction
        held == IF self.pending_req # Nothing THEN <<self.pending_req[1]>> ELSE <<>>
    IN  IF direction \notin {"REQUEST", "RESPONSE"}
        THEN Handled(held \o <<printable_line>>, self.pending_req, self.last_pair_key)
        ELSE IF direction = "REQUEST"
        THEN Handled(held, <<printable_line, make_key(msg)>>, self.last_pair_key)
        ELSE IF self.pending_req = Nothing
        THEN Handled(<<printable_line>>, self.pending_req, self.last_pair_key)
        ELSE LET pair_key == <<self.pending_req[2], make_key(msg)>>
             IN  IF pair_key = self.last_pair_key
                 THEN Handled(<<>>, Nothing, self.last_pair_key)
                 ELSE Handled(<<self.pending_req[1], printable_line>>, Nothing, pair_key)

\* Lines 439-484: handle_message; the lines to print and the fields after.
handle_message(self, msg, printable_line) ==
    LET direction == msg.direction
        held == IF self.pending_req # Nothing THEN <<self.pending_req[1]>> ELSE <<>>
    IN  IF direction \notin {"REQUEST", "RESPONSE"}
        THEN Handled(held \o <<printable_line>>, Nothing, self.last_pair_key)
        ELSE IF direction = "REQUEST"
        THEN Handled(held, <<printable_line, make_key(msg)>>, self.last_pair_key)
        ELSE IF self.pending_req = Nothing
        THEN Handled(<<printable_line>>, self.pending_req, self.last_pair_key)
        ELSE LET pair_key == <<self.pending_req[2], make_key(msg)>>
             IN  IF pair_key = self.last_pair_key
                 THEN Handled(<<>>, Nothing, self.last_pair_key)
                 ELSE Handled(<<self.pending_req[1], printable_line>>, Nothing, pair_key)

\* The deduper before run has handled a message.
DeduperIdle ==
    /\ last_pair_key = NewDeduper.last_pair_key
    /\ pending_req = NewDeduper.pending_req
    /\ messages = <<>>
    /\ printed = <<>>
    /\ last_return = <<>>

\* ------------------------------------------- humanize_serial_log.py

MASTER_MSG_TYPES ==
    [t \in 0..7 |-> CASE t = 0 -> "READ-DATA" [] t = 1 -> "WRITE-DATA"
                      [] t = 2 -> "INVALID-DATA" [] OTHER -> "RESERVED"]

SLAVE_MSG_TYPES ==
    [t \in 0..7 |-> CASE t = 4 -> "READ-ACK" [] t = 5 -> "WRITE-ACK"
                      [] t = 6 -> "DATA-INVALID" [] t = 7 -> "UNKNOWN-DATAID"
                      [] OTHER -> "RESERVED"]

bits_to_u8(b) == BitsToInt(b)

bits_to_u16(b) == BitsToInt(b)

u16_to_s16(v) == IF Bit(v, 15) = 1 THEN v - 65536 ELSE v

\* u16_to_s16(u16) / 256.0, kept as numerator and denominator.
f8_8_to_float(u16) == <<u16_to_s16(u16), 256>>

\* frame_bits.count("1") % 2 == 0
parity_ok(frame_bits) ==
    Cardinality({k \in 1..Len(frame_bits) : frame_bits[k] = 1}) % 2 = 0

decode_status_id0(data_u16) ==
    LET hb == (data_u16 \div 256) % 256
        lb == data_u16 % 256
    IN  Desc("MasterStatus(HB) | SlaveStatus(LB)",
             <<Bit(hb, 0), Bit(hb, 1), Bit(hb, 2), Bit(hb, 3), Bit(hb, 4), Bit(hb, 5),
               Bit(hb, 6),
               Bit(lb, 0), Bit(lb, 1), Bit(lb, 2), Bit(lb, 3), Bit(lb, 4), Bit(lb, 5),
               Bit(lb, 6), Bit(lb, 7)>>)

decode_id1_control_setpoint(data_u16) ==
    Desc("Control Setpoint (Tset)", <<f8_8_to_float(data_u16), data_u16>>)

decode_id2_master_config(data_u16) ==
    Desc("Master Config", <<Bit((data_u16 \div 256) % 256, 0), data_u16 % 256, data_u16>>)

decode_id3_slave_config(data_u16) ==
    LET hb == (data_u16 \div 256) % 256
    IN  Desc("Slave Config",
             <<Bit(hb, 0), Bit(hb, 1), Bit(hb, 2), Bit(hb, 3), Bit(hb, 4), Bit(hb, 5),
               Bit(hb, 6), Bit(hb, 7), data_u16 % 256, data_u16>>)

decode_f8_8_temp(name, data_u16) == Desc(name, <<f8_8_to_float(data_u16), data_u16>>)

\* ID_DECODERS: the data ids that have a decoder, and its name.
ID_DECODERS ==
    [id \in {0, 1, 2, 3, 17, 18, 19, 25, 26, 27, 28} |->
        CASE id = 0 -> "Status"
          [] id = 1 -> "Control Setpoint"
          [] id = 2 -> "Master Configuration"
          [] id = 3 -> "Slave Configuration"
          [] id = 25 -> "Boiler water temp"
          [] id = 26 -> "DHW temp"
          [] id = 27 -> "Outside temp"
          [] id = 28 -> "Return water temp"
          [] id = 17 -> "Relative modulation level"
          [] id = 18 -> "CH water pressure"
          [] id = 19 -> "DHW flow rate"]

\* ID_DECODERS[id].decode(u16), for an id of the table.
IdDecode(id, u16) ==
    CASE id = 0 -> decode_status_id0(u16)
      [] id = 1 -> decode_id1_control_setpoint(u16)
      [] id = 2 -> decode_id2_master_config(u16)
      [] id = 3 -> decode_id3_slave_config(u16)
      [] id \in {25, 26, 27, 28} -> decode_f8_8_temp(ID_DECODERS[id], u16)
      [] id = 17 -> Desc("Relative modulation", <<f8_8_to_float(u16), u16>>)
      [] id = 18 -> Desc("CH water pressure", <<f8_8_to_float(u16), u16>>)
      [] id = 19 -> Desc("DHW flow rate", <<f8_8_to_float(u16), u16>>)

\* decode_frame(src, frame_bits) of humanize_serial_log.py: the fields it
\* slices out of the 32 digits, and the parts of the line it returns.
serial_decode_frame(src, frame_bits) ==
    LET is_master_to_slave == src = "T"
        p_bit == bits_to_u8(Slice(frame_bits, 0, 1))
        msg_type == bits_to_u8(Slice(frame_bits, 1, 4))
        spare == bits_to_u8(Slice(frame_bits, 4, 8))
        data_id == bits_to_u8(Slice(frame_bits, 8, 16))
        data_val == bits_to_u16(Slice(frame_bits, 16, 32))
        hb == (data_val \div 256) % 256
        lb == data_val % 256
        known == data_id \in DOMAIN ID_DECODERS
    IN  [direction |-> IF src = "T" THEN "T->B" ELSE "B->T",
         msg_name |-> IF is_master_to_slave THEN MASTER_MSG_TYPES[msg_type]
                      ELSE SLAVE_MSG_TYPES[msg_type],
         p_bit |-> p_bit,
         msg_type |-> msg_type,
         spare |-> spare,
         data_id |-> data_id,
         data_val |-> data_val,
         id_name |-> IF known THEN ID_DECODERS[data_id] ELSE "Unknown/Unimplemented",
         payload |-> IF known THEN IdDecode(data_id, data_val)
                     ELSE Desc("DATA-VALUE", <<data_val, hb, lb>>),
         warnings |-> (IF spare # 0 THEN <<"SPARE!=0">> ELSE <<>>)
                        \o (IF ~parity_ok(frame_bits) THEN <<"PARITY_ERROR">> ELSE <<>>)]

\* LINE_RE: the source is T or B and exactly 32 digits follow it.
LineMatches(line) ==
    /\ line.src \in {"T", "B"}
    /\ Len(line.frame_bits) = 32
    /\ \A k \in 1..32 : line.frame_bits[k] \in {0, 1}

\* format_frame_with_humanize(frame): the line handed to process_line.
format_frame_with_humanize(frame) ==
    LET frame_bits == Format032b(frame)
        msg_type == (frame[1] \div 4096) % 8
    IN  [src |-> IF msg_type <= 3 THEN "T" ELSE "B", frame_bits |-> frame_bits]

\* ------------------------------------------------------------ the inputs

\* Frames the synthesizer is run on, as <<hi, lo>>: 0x80190000 among them, and
\* values of odd parity (0x0019 has three bits set).
FrameHi == {0, 32793, 65535, 25, 23100}
FrameLo == {0, 65535, 1, 42435}
Frames == FrameHi \X FrameLo

\* Frames whose streams are edited.
BaseFrames == {<<32793, 0>>, <<23100, 42435>>}

IdleDurations == {500, 5000}

\* Bounds of the edited streams: edits touch the first MaxEditPos and the last
\* MaxTailPos pulses, trailing noise has up to MaxSuffix pulses, and raw streams
\* have up to MaxRawLen pulses.
MaxEditPos == 3
MaxTailPos == 3
MaxSuffix == 3
MaxRawLen == 2

InsertPalette == {0, 1} \X {50, 250, 500, 700}
SetDurations == {150, 250, 700, 1400}
MisreadGlitches == {4, 100}
StretchDurations == {699, 1101, 1200}
\* Flip patterns at the end of a frame, as <<pulses replaced, tail>>.
TailPalette ==
    {<<1, <<<<0, 1000>>, <<0, 514>>, <<1, 4>>, <<0, 500>>>>>>,
     <<2, <<<<1, 500>>, <<1, 650>>, <<0, 100>>, <<1, 500>>>>>>,
     <<2, <<<<1, 500>>, <<1, 650>>, <<0, 100>>, <<1, 500>>, <<0, 500>>>>>>}
\* Flip patterns after a segment that is invalid, merged, or followed by a
\* flipped segment of two halves.
FlipShapes ==
    {<<<<0, 250>>, <<0, 514>>, <<1, 4>>, <<0, 482>>>>,
     <<<<0, 300>>, <<0, 300>>, <<0, 514>>, <<1, 4>>, <<0, 482>>>>,
     <<<<0, 500>>, <<0, 650>>, <<1, 100>>, <<0, 500>>>>}
SplitShapes == {<<300, 50>>, <<700, 50>>}
SuffixPalette == {<<0, 500>>, <<0, 514>>, <<1, 4>>, <<1, 500>>}
RawPalette == {0, 1} \X {50, 500}

Insert(s, p, pulse) == SubSeq(s, 1, p) \o <<pulse>> \o SubSeq(s, p + 1, Len(s))
Delete(s, p) == SubSeq(s, 1, p) \o SubSeq(s, p + 2, Len(s))
SetDur(s, p, d) == [s EXCEPT ![p + 1] = <<Level(s[p + 1]), d>>]
\* A half-bit captured with the wrong level but for a last sliver of g us.
Misread(s, p, g) ==
    SubSeq(s, 1, p) \o <<<<1 - Level(At(s, p)), Dur(At(s, p)) - g>>, <<Level(At(s, p)), g>>>>
        \o SubSeq(s, p + 2, Len(s))
\* A pulse cut in two by a glitch of the other level.
Split(s, p, shape) ==
    SubSeq(s, 1, p)
        \o <<<<Level(At(s, p)), shape[1]>>, <<1 - Level(At(s, p)), shape[2]>>,
             <<Level(At(s, p)), Dur(At(s, p)) - shape[1] - shape[2]>>>>
        \o SubSeq(s, p + 2, Len(s))
\* A half-bit squished to 75 us, its time given to the pulse before it.
Squish(s, p) ==
    [s EXCEPT ![p] = <<Level(s[p]), Dur(s[p]) + Dur(s[p + 1]) - 75>>,
              ![p + 1] = <<Level(s[p + 1]), 75>>]

\* A half-bit squished to 75 us after a pulse of d us.
Stretch(s, p, d) == [Squish(s, p) EXCEPT ![p] = <<Level(s[p]), d>>]

\* Pulse p replaced by a shape, whose levels are relative to the pulse's own
\* (0 for its level, 1 for the other).
Reshape(s, p, shape) ==
    SubSeq(s, 1, p)
        \o [k \in 1..Len(shape) |->
              <<IF shape[k][1] = 0 THEN Level(At(s, p)) ELSE 1 - Level(At(s, p)),
                shape[k][2]>>]
        \o SubSeq(s, p + 2, Len(s))

\* The last n pulses replaced by a tail.
ReplaceTail(s, n, tail) == SubSeq(s, 1, Len(s) - n) \o tail

\* An edge captured one half-bit late: 500 us move from a pulse to the one before.
Slip(s, p) ==
    [s EXCEPT ![p + 1] = <<Level(s[p + 1]), Dur(s[p + 1]) + 500>>,
              ![p + 2] = <<Level(s[p + 2]), Dur(s[p + 2]) - 500>>]

\* The capture of a frame on a bus that idles HIGH: the idle level runs into
\* the start bit's first half.
HighIdle(s) == <<<<1, Dur(s[1]) + Dur(s[2])>>>> \o SubSeq(s, 3, Len(s))

EditPositions(s) ==
    {p \in 1..(Len(s) - 1) : p <= MaxEditPos \/ p >= Len(s) - MaxTailPos}

RECURSIVE SeqsUpTo(_, _)
SeqsUpTo(S, n) ==
    IF n = 0 THEN {<<>>}
    ELSE SeqsUpTo(S, n - 1)
         \cup {Append(q, x) : q \in {r \in SeqsUpTo(S, n - 1) : Len(r) = n - 1}, x \in S}

Input(pulses, kind, frame) == [pulses |-> pulses, kind |-> kind, frame |-> frame]

IdealInputs ==
    {Input(collapse_runs(emit_halfbit_stream(f, 500, d)), "collapsed", f) :
        f \in Frames, d \in IdleDurations}
    \cup {Input(emit_halfbit_stream(f, 500, d), "halfbits", f) :
        f \in Frames, d \in IdleDurations}

\* Half-bit streams whose start or stop bit is sent as 0.
MarkedInputs ==
    {Input(<<<<0, 5000>>>> \o EmitBit(m[1], 500) \o EmitFrameBits(f, 31, 500)
                \o EmitBit(m[2], 500), "marked", f) :
        f \in Frames, m \in {<<0, 0>>, <<0, 1>>, <<1, 0>>}}

Bases ==
    {collapse_runs(emit_halfbit_stream(f, 500, 5000)) : f \in BaseFrames}
    \cup {HighIdle(collapse_runs(emit_halfbit_stream(f, 500, 5000))) : f \in BaseFrames}

Edits(s) ==
    {Insert(s, p, x) : p \in EditPositions(s) \cup {Len(s)}, x \in InsertPalette}
    \cup {Delete(s, p) : p \in EditPositions(s)}
    \cup {SetDur(s, p, d) : p \in EditPositions(s), d \in SetDurations}
    \cup {Misread(s, p, g) : p \in EditPositions(s), g \in MisreadGlitches}
    \cup {Split(s, p, sh) :
            p \in {q \in EditPositions(s) : Dur(At(s, q)) = 1000}, sh \in SplitShapes}
    \cup {Squish(s, p) : p \in {q \in EditPositions(s) : Dur(At(s, q)) = 500}}
    \cup {Stretch(s, p, d) :
            p \in {q \in EditPositions(s) : Dur(At(s, q)) = 500}, d \in StretchDurations}
    \cup {Slip(s, p) :
            p \in {q \in 1..(Len(s) - 2) : Dur(At(s, q)) = 500 /\ Dur(At(s, q + 1)) = 1000}}
    \cup {Reshape(s, p, sh) : p \in EditPositions(s), sh \in FlipShapes}
    \cup {ReplaceTail(s, t[1], t[2]) : t \in TailPalette}
    \cup {s \o suf : suf \in SeqsUpTo(SuffixPalette, MaxSuffix)}

EditedInputs == {Input(e, "edited", <<>>) : e \in UNION {Edits(s) : s \in Bases}}

RawInputs == {Input(r, "raw", <<>>) : r \in SeqsUpTo(RawPalette, MaxRawLen)}

Inputs == IdealInputs \cup MarkedInputs \cup EditedInputs \cup RawInputs

\* ------------------------------------------------------ the state machine

Init ==
    /\ \E inp \in Inputs :
        /\ interrupts = inp.pulses
        /\ given = [kind |-> inp.kind, frame |-> inp.frame]
    /\ half_levels = <<>>
    /\ i = 0
    /\ bits = <<>>
    /\ pc = "start"
    /\ result = Pending
    /\ log = <<>>
    /\ hframe = <<>>
    /\ hline = Null
    /\ serial = Null
    /\ ot = Null
    /\ hpc = "idle"
    /\ DeduperIdle

\* The effect of one pass on the state.
Apply(p) ==
    /\ i' = p.i
    /\ half_levels' = p.h
    /\ log' = log \o p.ev
    /\ pc' = IF p.returned THEN "done" ELSE "loop"
    /\ result' = IF p.returned THEN None ELSE result
    /\ UNCHANGED <<interrupts, bits, given>>
    /\ UNCHANGED hvars
    /\ UNCHANGED pvars

DoStartFix ==
    /\ pc = "start"
    /\ \E p \in {StartFix(interrupts)} : Apply(p)

GlitchStep ==
    /\ pc = "loop"
    /\ LoopGuard(interrupts, i, half_levels)
    /\ IsGlitch(interrupts, i)
    /\ \E p \in {GlitchBranch(interrupts, i, half_levels)} : Apply(p)

FlipStep ==
    /\ pc = "loop"
    /\ LoopGuard(interrupts, i, half_levels)
    /\ ~IsGlitch(interrupts, i)
    /\ FlipMatches(interrupts, i)
    /\ \E p \in {FlipBranch(interrupts, i, half_levels)} : Apply(p)

ClassifyStep ==
    /\ pc = "loop"
    /\ LoopGuard(interrupts, i, half_levels)
    /\ ~IsGlitch(interrupts, i)
    /\ ~FlipMatches(interrupts, i)
    /\ \E p \in {ClassifyBranch(interrupts, i, half_levels)} : Apply(p)

DoEndFix ==
    /\ pc = "loop"
    /\ ~LoopGuard(interrupts, i, half_levels)
    /\ half_levels' = EndFix(half_levels)
    /\ log' = IF EndFixApplies(half_levels)
              THEN Append(log, Ev("EndFix", 0, 0, 1)) ELSE log
    /\ pc' = "count"
    /\ UNCHANGED <<interrupts, i, bits, result, given>>
    /\ UNCHANGED hvars
    /\ UNCHANGED pvars

\* Lines 195-197.
CountCheck ==
    /\ pc = "count"
    /\ IF Len(half_levels) # NUM_HALVES
       THEN /\ log' = Append(log, Ev("HalfCountMismatch", 0, 0, Len(half_levels)))
            /\ result' = None
            /\ pc' = "done"
       ELSE /\ pc' = "manchester"
            /\ UNCHANGED <<log, result>>
    /\ UNCHANGED <<interrupts, half_levels, i, bits, given>>
    /\ UNCHANGED hvars
    /\ UNCHANGED pvars

\* Lines 199-215.
DecodeBits ==
    /\ pc = "manchester"
    /\ \E m \in {Manchester(half_levels)} :
        /\ bits' = m.bits
        /\ IF m.ok
           THEN /\ pc' = "validate"
                /\ UNCHANGED <<log, result>>
           ELSE /\ log' = Append(log, Ev("InvalidManchester", m.bad, 0, 0))
                /\ result' = None
                /\ pc' = "done"
    /\ UNCHANGED <<interrupts, half_levels, i, given>>
    /\ UNCHANGED hvars
    /\ UNCHANGED pvars

\* Lines 217-235.
Validate ==
    /\ pc = "validate"
    /\ \E err \in {ValidateError(bits)} :
        IF err = ""
        THEN /\ \E frame \in {BuildFrame(bits, 1, <<0, 0>>)} :
                    result' = Returned(frame, bits)
             /\ UNCHANGED log
        ELSE /\ result' = None
             /\ log' = Append(log, Ev(err, 0, 0, 0))
    /\ pc' = "done"
    /\ UNCHANGED <<interrupts, half_levels, i, bits, given>>
    /\ UNCHANGED hvars
    /\ UNCHANGED pvars

Next ==
    \/ DoStartFix
    \/ GlitchStep
    \/ FlipStep
    \/ ClassifyStep
    \/ DoEndFix
    \/ CountCheck
    \/ DecodeBits
    \/ Validate

Spec == Init /\ [][Next]_vars

\* The decoder is a sequential function: whenever a step is possible the
\* interpreter takes it.
FairSpec == Init /\ [][Next]_vars /\ WF_vars(Next)

\* ------------------------------------- the humanizers' state machine

\* The frames the humanizers are run on: every combination of parity, message
\* type and a few spare values with a few data ids, and every data id with
\* message types READ-DATA and READ-ACK.
HumanizeData == {0, 1, 255, 256, 4660, 32767, 32768, 65535}
HumanizeSpare == {0, 5, 15}
HumanizeIds == {0, 1, 7, 99, 128, 255}

FrameOf(parity, msg_type, spare, data_id, data) ==
    <<parity * 32768 + msg_type * 4096 + spare * 256 + data_id, data>>

HumanizeFrames ==
    {FrameOf(p, t, s, id, d) :
        p \in {0, 1}, t \in 0..7, s \in HumanizeSpare, id \in HumanizeIds,
        d \in HumanizeData}
    \cup {FrameOf(0, t, 0, id, d) : t \in {0, 4}, id \in 0..255, d \in HumanizeData}

\* A pre-decoded frame (parse_input_line's 'frame' input, or the "message"
\* field of a server message) waits to be humanized; no stream is decoded.
HumanizeInit ==
    /\ hframe \in HumanizeFrames
    /\ hline = Null
    /\ serial = Null
    /\ ot = Null
    /\ hpc = "format"
    /\ interrupts = <<>>
    /\ given = [kind |-> "frame", frame |-> <<>>]
    /\ half_levels = <<>>
    /\ i = 0
    /\ bits = <<>>
    /\ pc = "done"
    /\ result = Pending
    /\ log = <<>>
    /\ DeduperIdle

\* decode_opentherm.py lines 237-251, up to the call of process_line.
FormatFrame ==
    /\ hpc = "format"
    /\ hline' = format_frame_with_humanize(hframe)
    /\ hpc' = "line"
    /\ UNCHANGED <<hframe, serial, ot>>
    /\ UNCHANGED dvars
    /\ UNCHANGED pvars

\* humanize_serial_log.py lines 205-214: process_line on the formatted line.
ProcessLine ==
    /\ hpc = "line"
    /\ serial' = IF LineMatches(hline)
                 THEN serial_decode_frame(hline.src, hline.frame_bits)
                 ELSE serial
    /\ hpc' = "done"
    /\ UNCHANGED <<hframe, hline, ot>>
    /\ UNCHANGED dvars
    /\ UNCHANGED pvars

\* humanize_ot_log.py lines 519-524: decode_frame and decode_data in the try
\* block of run, on the same frame value.
OtDecode ==
    /\ hpc # "idle"
    /\ ot = Null
    /\ ot' = LET frame == ot_decode_frame(hframe)
                 human_data == decode_data(frame.data_id, frame.data)
             IN  [frame |-> frame, human_data |-> human_data,
                  error |-> human_data = Raised]
    /\ UNCHANGED <<hframe, hline, serial, hpc>>
    /\ UNCHANGED dvars
    /\ UNCHANGED pvars

HumanizeNext ==
    \/ FormatFrame
    \/ ProcessLine
    \/ OtDecode

HumanizeSpec == HumanizeInit /\ [][HumanizeNext]_vars

\* ------------------------------------- the pair deduper's state machine

\* The messages run handles: at most MaxMessages of them.
MaxMessages == 6

\* What the server sends as JSON: two requests that differ in the data id,
\* two responses that differ in the frame value only, and a message without a
\* direction (msg.get gives "").
JsonMessages ==
    {Message("REQUEST", "READ-DATA", 25, <<25, 0>>),
     Message("REQUEST", "READ-DATA", 0, <<32768, 0>>),
     Message("RESPONSE", "READ-ACK", 25, <<49177, 15360>>),
     Message("RESPONSE", "READ-ACK", 25, <<16409, 15616>>),
     Message("", "READ-DATA", 25, <<25, 0>>)}

\* Lines 503-512: the message handle_message is given for a text that is not
\* JSON.
StatusMessage == Message("STATUS", "", -1, <<>>)

\* run has made its deduper (line 492); no stream is decoded and no frame is
\* humanized.
DedupInit ==
    /\ DeduperIdle
    /\ hframe = <<>>
    /\ hline = Null
    /\ serial = Null
    /\ ot = Null
    /\ hpc = "idle"
    /\ interrupts = <<>>
    /\ given = [kind |-> "messages", frame |-> <<>>]
    /\ half_levels = <<>>
    /\ i = 0
    /\ bits = <<>>
    /\ pc = "done"
    /\ result = Pending
    /\ log = <<>>

\* Lines 500-536: one message of the connection: its line is made, handed to
\* handle_message with the message, and the returned lines are printed. The
\* line is the message's arrival number (its text carries the timestamp, which
\* is no part of the key).
Handle(msg) ==
    /\ Len(messages) < MaxMessages
    /\ \E h \in {handle_message([last_pair_key |-> last_pair_key,
                                  pending_req |-> pending_req],
                                 msg, Len(messages) + 1)} :
        /\ last_return' = h.lines
        /\ printed' = printed \o h.lines
        /\ pending_req' = h.pending_req
        /\ last_pair_key' = h.last_pair_key
    /\ messages' = Append(messages, msg)
    /\ UNCHANGED dvars
    /\ UNCHANGED hvars

\* Lines 503-512: a plain text status from the server.
ReceiveStatus == Handle(StatusMessage)

\* Lines 514-536: a JSON message.
ReceiveJson == \E msg \in JsonMessages : Handle(msg)

DedupNext ==
    \/ ReceiveStatus
    \/ ReceiveJson

DedupSpec == DedupInit /\ [][DedupNext]_vars

\* The kind of the error line a finished run printed, "" for a returned frame.
ErrorKind == IF result.ret = "None" THEN Last(log).tag ELSE ""

TypeOK ==
    /\ pc \in {"start", "loop", "count", "manchester", "validate", "done"}
    /\ result.ret \in {"pending", "None", "tuple"}
    /\ (pc = "done") = (result.ret # "pending")

\* ------------------------------------------------------------ the claims

\* What the claims read off a state.
Halves68WellFormed(h) ==
    /\ Len(h) = 68
    /\ \A b \in 0..33 : h[2 * b + 1] # h[2 * b + 2]
    /\ h[1] = 1 /\ h[2] = 0
    /\ h[67] = 1 /\ h[68] = 0

\* The number of set bits among structural bits 1..32, read from the halves:
\* a bit is 1 exactly when its first half is HIGH.
DataOnes(h) == Cardinality({b \in 1..32 : h[2 * b + 1] = 1})

FrameOnes(frame) == Cardinality({k \in 0..31 : FrameBit(frame, k) = 1})

Logged(tag) == \E k \in 1..Len(log) : log[k].tag = tag

LoopEnded == pc \in {"count", "manchester", "validate"}
                \/ (pc = "done" /\ Last(log).tag # "InvalidDuration")

\* C1. Round trip: a frame of even parity, synthesized with 500 us halves, no
\* jitter and an idle of at least 500 us, collapsed and decoded, comes back as
\* exactly that frame.
C1_RoundTrip ==
    (pc = "done" /\ given.kind = "collapsed" /\ FrameOnes(given.frame) % 2 = 0)
        => (result.ret = "tuple" /\ result.frame = given.frame)

C1_Witness ==
    /\ pc = "done"
    /\ given.kind = "collapsed"
    /\ given.frame = <<32793, 0>>
    /\ result.frame = <<32793, 0>>

\* C2. Parity rejection: 68 well-formed halves whose 32 data bits hold an odd
\* number of ones end in ParityError with no frame; every returned frame has an
\* even number of set bits.
C2_ParityRejection ==
    pc = "done" =>
        /\ (Halves68WellFormed(half_levels) /\ DataOnes(half_levels) % 2 = 1)
              => (result = None /\ ErrorKind = "ParityError")
        /\ result.ret = "tuple" => FrameOnes(result.frame) % 2 = 0

C2_Witness ==
    /\ pc = "done"
    /\ Halves68WellFormed(half_levels)
    /\ DataOnes(half_levels) % 2 = 1
    /\ ErrorKind = "ParityError"

\* C3. All or nothing: a frame is returned only from exactly 68 halves whose 34
\* pairs each hold two different levels and whose start and stop bits are 1; in
\* every other case the return value is None, with no frame and no bits.
C3_AllOrNothing ==
    /\ pc # "done" => result = Pending
    /\ pc = "done" =>
          IF result.ret = "tuple"
          THEN /\ Halves68WellFormed(half_levels)
               /\ Len(result.bits) = 34
               /\ Len(result.frame) = 2
          ELSE result = None

C3_Witness ==
    /\ pc = "done"
    /\ given.kind = "edited"
    /\ result.ret = "tuple"
    /\ Halves68WellFormed(half_levels)

\* C4. Glitch drop: a pulse shorter than 200 us that the decoder skips (its
\* context does not satisfy the restore condition) leaves the outcome what it is
\* for the stream without that pulse.
C4_GlitchDropIsRemoval ==
    pc = "done" =>
        \A k \in 1..Len(log) :
            (log[k].tag = "GlitchSkip" /\ log[k].idx >= 2
                /\ log[k].idx + 1 < Len(interrupts))
            => decode_opentherm(Delete(interrupts, log[k].idx))
                   = [result |-> result, error |-> ErrorKind]

\* C5. Output bound: the half-bit buffer never holds more than 68 entries.
C5_HalfBufferBound == Len(half_levels) <= 68

\* C6. Idle merge: right after the start check, the buffer holds one implicit
\* HIGH half exactly when the stream has at least 2 pulses, pulse[0] is HIGH and
\* pulse[1] is LOW, and is empty otherwise; nothing of pulse[1] is in it yet.
C6_IdleMerge ==
    (pc = "loop" /\ i = 1) =>
        /\ half_levels =
              IF Len(interrupts) >= 2 /\ interrupts[1][1] = 1 /\ interrupts[2][1] = 0
              THEN <<1>> ELSE <<>>
        /\ Logged("StartFix") = (half_levels = <<1>>)

C6_Witness ==
    /\ pc = "loop"
    /\ i = 1
    /\ half_levels = <<1>>
    /\ interrupts[1][1] = 1
    /\ interrupts[2][1] = 0

\* C7. No inference on LOW: when the main loop ends with exactly 67 halves and
\* the last is LOW, nothing is appended and the run fails with HalfCountMismatch.
C7_NoInferenceOnLow ==
    /\ [][(pc = "loop" /\ pc' = "count" /\ Len(half_levels) = 67
              /\ half_levels[67] = 0)
            => (half_levels' = half_levels /\ log' = log)]_vars
    /\ [](pc = "done" /\ LoopEnded /\ Len(half_levels) = 67 /\ half_levels[67] = 0
            => (result = None /\ ErrorKind = "HalfCountMismatch"))

C7_Witness ==
    /\ pc = "done"
    /\ Len(half_levels) = 67
    /\ half_levels[67] = 0
    /\ ErrorKind = "HalfCountMismatch"
    /\ ~Logged("EndFix")

\* C8. End inference: when the main loop ends with exactly 67 halves and the last
\* is HIGH, exactly one LOW half is appended, so the stop bit decodes as 1; the
\* buffer is left as it is in every other situation.
C8_EndInference ==
    /\ [][(pc = "loop" /\ pc' = "count")
            => IF Len(half_levels) = 67 /\ half_levels[67] = 1
               THEN half_levels' = half_levels \o <<0>>
               ELSE half_levels' = half_levels /\ log' = log]_vars
    /\ [](pc = "done" /\ Logged("EndFix")
            => /\ Len(half_levels) = 68
               /\ half_levels[67] = 1 /\ half_levels[68] = 0
               /\ ErrorKind \notin {"HalfCountMismatch", "InvalidStopBit"})

C8_Witness ==
    /\ pc = "done"
    /\ Logged("EndFix")
    /\ result.ret = "tuple"

\* The half-bits the pulses from index k on carry, each classified on its own.
RECURSIVE CarriedHalves(_, _)
CarriedHalves(ints, k) ==
    IF k >= Len(ints) THEN 0
    ELSE Classify(Dur(At(ints, k))) + CarriedHalves(ints, k + 1)

\* A stream of alternating levels whose pulses all classify, carrying more than
\* 68 half-bits.
OverLength(ints) ==
    /\ \A k \in 1..(Len(ints) - 1) : Classify(Dur(At(ints, k))) # 0
    /\ \A k \in 1..(Len(ints) - 2) : Level(At(ints, k)) # Level(At(ints, k + 1))
    /\ CarriedHalves(ints, 1) > 68

\* C9 as stated. Over-length streams: a stream carrying more than 68 half-bits
\* fails with HalfCountMismatch rather than returning a frame built from the
\* first 68 (here: whose first 68 halves are a well-formed frame of even parity).
C9_OverLengthFails ==
    (pc = "done" /\ OverLength(interrupts)
        /\ Halves68WellFormed(half_levels) /\ DataOnes(half_levels) % 2 = 0)
        => (result = None /\ ErrorKind = "HalfCountMismatch")

\* C9 as amended. Once 68 halves are collected the main loop reads no further
\* pulse; a run that ends the loop with 68 halves and pulses unread does not fail
\* with HalfCountMismatch, and returns a frame exactly when those 68 halves are
\* well formed and of even parity.
C9_OverLengthDecodesFirst68 ==
    /\ [][(pc = "loop" /\ Len(half_levels) >= 68) => (pc' = "count" /\ i' = i)]_vars
    /\ [](pc = "done" /\ LoopEnded /\ Len(half_levels) = 68 /\ i < Len(interrupts)
            => /\ ErrorKind # "HalfCountMismatch"
               /\ (result.ret = "tuple")
                     = (Halves68WellFormed(half_levels)
                            /\ DataOnes(half_levels) % 2 = 0))

C9_Witness ==
    /\ pc = "done"
    /\ OverLength(interrupts)
    /\ i < Len(interrupts)
    /\ result.ret = "tuple"

\* The lines the step from this state to the next printed.
NewLines == SubSeq(log', Len(log) + 1, Len(log'))

RECURSIVE SumDur(_, _, _)
SumDur(ints, a, b) == IF a > b THEN 0 ELSE Dur(At(ints, a)) + SumDur(ints, a + 1, b)

Min(a, b) == IF a < b THEN a ELSE b

\* C10. Classification: a segment that starts at a pulse of 200 us or more,
\* reached with fewer than 68 halves, is classified by the summed duration d of
\* its same-level pulses: 1 half for 300 <= d < 700, 2 halves for
\* 700 <= d <= 1300 (no more than 68 in total), and for any other d the run
\* fails at once with InvalidDuration, whatever pulses follow.
C10_Classification ==
    [][(pc = "loop" /\ i < Len(interrupts) /\ Len(half_levels) < 68
            /\ Dur(At(interrupts, i)) >= 200)
        => LET level == Level(At(interrupts, i))
               flipped == \E k \in 1..Len(NewLines) : NewLines[k].tag = "Flip"
               failed == pc' = "done"
               last == IF failed THEN i' ELSE IF flipped THEN i' - 3 ELSE i' - 1
               d == SumDur(interrupts, i, last)
               n == IF 300 <= d /\ d < 700 THEN 1
                    ELSE IF 700 <= d /\ d <= 1300 THEN 2 ELSE 0
               got == Min(n, 68 - Len(half_levels))
           IN  /\ last >= i
               /\ \A k \in i..last : Level(At(interrupts, k)) = level
               /\ failed = (n = 0)
               /\ IF n = 0
                  THEN /\ result' = None
                       /\ Last(log').tag = "InvalidDuration"
                       /\ half_levels' = half_levels
                  ELSE /\ Len(half_levels') >= Len(half_levels) + got
                       /\ SubSeq(half_levels', 1, Len(half_levels)) = half_levels
                       /\ \A k \in 1..got : half_levels'[Len(half_levels) + k] = level
                       /\ ~flipped => Len(half_levels') = Len(half_levels) + got
                       /\ flipped => \A k \in (Len(half_levels) + got + 1)..Len(half_levels') :
                                        half_levels'[k] = 1 - level]_vars

C10_Witness ==
    /\ pc = "done"
    /\ Last(log).tag = "InvalidDuration"
    /\ Last(log).dur >= 200
    /\ Last(log).dur < 300
    /\ i + 1 < Len(interrupts)


\* The bit positions of a 68-half buffer whose two halves are equal.
EqualPairs(h) == {b \in 0..33 : h[2 * b + 1] = h[2 * b + 2]}

\* C11. Manchester mapping: from 68 halves, the pair of bit position b reads as
\* 1 when it is (HIGH, LOW) and as 0 when it is (LOW, HIGH), giving exactly 34
\* structural bits; equal halves at any position make the run fail with
\* InvalidManchester, naming the lowest such position.
C11_ManchesterMapping ==
    [][pc = "manchester"
        => /\ Len(half_levels) = 68
           /\ IF EqualPairs(half_levels) = {}
              THEN /\ pc' = "validate"
                   /\ result' = Pending
                   /\ Len(bits') = 34
                   /\ \A b \in 0..33 :
                        /\ (half_levels[2 * b + 1] = 1 /\ half_levels[2 * b + 2] = 0)
                              => bits'[b + 1] = 1
                        /\ (half_levels[2 * b + 1] = 0 /\ half_levels[2 * b + 2] = 1)
                              => bits'[b + 1] = 0
              ELSE /\ pc' = "done"
                   /\ result' = None
                   /\ Last(log').tag = "InvalidManchester"
                   /\ Last(log').idx \in EqualPairs(half_levels)
                   /\ \A b \in EqualPairs(half_levels) : Last(log').idx <= b]_vars

C11_Witness ==
    /\ pc = "validate"
    /\ Len(bits) = 34
    /\ \E b \in 1..32 : bits[b + 1] = 1 /\ half_levels[2 * b + 1] = 1
    /\ \E b \in 1..32 : bits[b + 1] = 0 /\ half_levels[2 * b + 1] = 0


\* The sum over k in a..b of bs[k] * 2^(b - k), bs indexed from 0.
RECURSIVE WeightedSum(_, _, _)
WeightedSum(bs, a, b) ==
    IF a > b THEN 0 ELSE At(bs, a) * Pow2(b - a) + WeightedSum(bs, a + 1, b)

\* C12. Frame assembly: the returned frame is the sum over k in 1..32 of
\* bits[k] * 2^(32 - k) (high word from bits 1..16, low word from bits 17..32):
\* bit 1 is the most significant, the start and stop bits are not part of the
\* value, and the value fits in 32 bits.
C12_FrameAssembly ==
    (pc = "done" /\ result.ret = "tuple") =>
        /\ Len(result.bits) = 34
        /\ result.frame = <<WeightedSum(result.bits, 1, 16),
                            WeightedSum(result.bits, 17, 32)>>
        /\ result.frame[1] \in 0..65535
        /\ result.frame[2] \in 0..65535
        /\ \A k \in 0..31 : FrameBit(result.frame, k) = At(result.bits, 32 - k)

C12_Witness ==
    /\ pc = "done"
    /\ result.ret = "tuple"
    /\ result.frame = <<23100, 42435>>
    /\ At(result.bits, 2) = 1
    /\ At(result.bits, 32) = 1
    /\ At(result.bits, 1) = 0


\* The error lines of the log.
ErrorTags ==
    {"InvalidDuration", "HalfCountMismatch", "InvalidManchester",
     "InvalidStartBit", "InvalidStopBit", "ParityError"}

ErrorLines == {k \in 1..Len(log) : log[k].tag \in ErrorTags}

\* The failure conditions a finished buffer exhibits, each read off the halves
\* on its own.
Miscounted(h) == Len(h) # 68
StartIsZero(h) == h[1] = 0 /\ h[2] = 1
StopIsZero(h) == h[67] = 0 /\ h[68] = 1

\* C13. Error precedence: a run prints at most one error line, its last line,
\* and the kind is the earliest failing stage in the order InvalidDuration,
\* HalfCountMismatch, InvalidManchester (lowest bit position first),
\* InvalidStartBit, InvalidStopBit, ParityError, whatever later stages would
\* also have rejected.
C13_ErrorPrecedence ==
    /\ Cardinality(ErrorLines) <= 1
    /\ ErrorLines # {} => (pc = "done" /\ result = None /\ ErrorLines = {Len(log)})
    /\ pc = "done" =>
          ErrorKind =
            IF Logged("InvalidDuration") THEN "InvalidDuration"
            ELSE IF Miscounted(half_levels) THEN "HalfCountMismatch"
            ELSE IF EqualPairs(half_levels) # {} THEN "InvalidManchester"
            ELSE IF StartIsZero(half_levels) THEN "InvalidStartBit"
            ELSE IF StopIsZero(half_levels) THEN "InvalidStopBit"
            ELSE IF DataOnes(half_levels) % 2 = 1 THEN "ParityError"
            ELSE ""
    /\ (pc = "done" /\ ErrorKind = "InvalidManchester")
          => \A b \in EqualPairs(half_levels) : Last(log).idx <= b

C13_Witness ==
    /\ pc = "done"
    /\ Len(half_levels) = 68
    /\ EqualPairs(half_levels) = {}
    /\ StartIsZero(half_levels)
    /\ StopIsZero(half_levels)
    /\ DataOnes(half_levels) % 2 = 1
    /\ ErrorKind = "InvalidStartBit"

\* The claim's other example: start bit 0 and an equal pair at a later bit.
C13_StartZeroEqualPair ==
    /\ pc = "done"
    /\ Len(half_levels) = 68
    /\ StartIsZero(half_levels)
    /\ EqualPairs(half_levels) # {}
    /\ ErrorKind = "InvalidManchester"


\* Bits hi..lo of a frame as a number, read bit by bit.
RECURSIVE Field(_, _, _)
Field(frame, hi, lo) ==
    IF hi < lo THEN 0 ELSE FrameBit(frame, hi) * Pow2(hi - lo) + Field(frame, hi - 1, lo)

\* C15. Field layout: parity is bit 31 of the frame, msg_type bits 30..28, spare
\* bits 27..24, data_id bits 23..16 and data_value bits 15..0; the shifts of
\* humanize_ot_log.decode_frame and the slices humanize_serial_log.decode_frame
\* takes of the 32-digit rendering give the same parity, msg_type, data_id and
\* data_value, and every rendered line is accepted by process_line.
C15_FieldLayout ==
    /\ ot # Null =>
          /\ ot.frame.parity = Field(hframe, 31, 31)
          /\ ot.frame.msg_type = Field(hframe, 30, 28)
          /\ ot.frame.data_id = Field(hframe, 23, 16)
          /\ ot.frame.data = Field(hframe, 15, 0)
    /\ hline # Null => (Len(hline.frame_bits) = 32 /\ LineMatches(hline))
    /\ hpc = "done" => serial # Null
    /\ serial # Null =>
          /\ serial.p_bit = Field(hframe, 31, 31)
          /\ serial.msg_type = Field(hframe, 30, 28)
          /\ serial.spare = Field(hframe, 27, 24)
          /\ serial.data_id = Field(hframe, 23, 16)
          /\ serial.data_val = Field(hframe, 15, 0)
    /\ (ot # Null /\ serial # Null) =>
          /\ serial.p_bit = ot.frame.parity
          /\ serial.msg_type = ot.frame.msg_type
          /\ serial.data_id = ot.frame.data_id
          /\ serial.data_val = ot.frame.data

C15_Witness ==
    /\ hpc = "done"
    /\ ot # Null
    /\ serial # Null
    /\ hframe = FrameOf(0, 4, 5, 99, 4660)
    /\ serial.msg_type = 4
    /\ serial.spare = 5
    /\ ot.frame.data_id = 99
    /\ ot.frame.data = 4660


\* The data ids each interpreter has a dedicated decoder for.
OtDedicated ==
    (0..6) \cup {8, 9, 14} \cup (15..39) \cup {48, 49, 50, 56, 57, 58, 100, 115}
        \cup (124..127)
SerialDedicated == {0, 1, 2, 3, 17, 18, 19, 25, 26, 27, 28}

\* C16. Unknown-ID fallback: for every data id in 0..255 and every data value,
\* humanize_ot_log.decode_data and humanize_serial_log.decode_frame return a
\* description and never an error; an id without a dedicated decoder gets the
\* generic dump showing the raw data value, and only such an id does.
C16_UnknownIdFallback ==
    LET id == Field(hframe, 23, 16)
        data == Field(hframe, 15, 0)
    IN  /\ ot # Null =>
              /\ ~ot.error
              /\ ot.human_data.form \notin {"", "KeyError"}
              /\ (id \notin OtDedicated) =
                    (ot.human_data.form \in {"Manufacturer-specific ID",
                                             "Unknown/unsupported ID"})
              /\ id \notin OtDedicated =>
                    /\ ot.human_data.args[1] = id
                    /\ ot.human_data.args[2] = data
                    /\ (ot.human_data.form = "Manufacturer-specific ID") = (id >= 128)
        /\ hpc = "done" => serial # Null
        /\ serial # Null =>
              /\ serial.payload.form # ""
              /\ (id \notin SerialDedicated) = (serial.payload.form = "DATA-VALUE")
              /\ (id \notin SerialDedicated) = (serial.id_name = "Unknown/Unimplemented")
              /\ id \notin SerialDedicated =>
                    serial.payload.args = <<data, data \div 256, data % 256>>

C16_Witness ==
    /\ hpc = "done"
    /\ ot # Null
    /\ serial # Null
    /\ Field(hframe, 23, 16) = 7
    /\ Field(hframe, 15, 0) = 4660
    /\ ot.human_data = Desc("Unknown/unsupported ID", <<7, 4660, <<4660, 256>>>>)
    /\ serial.payload = Desc("DATA-VALUE", <<4660, 18, 52>>)


\* The cursor is in the main loop at a pulse shorter than 200 us.
AtGlitch ==
    /\ pc = "loop"
    /\ i < Len(interrupts)
    /\ Len(half_levels) < 68
    /\ Dur(At(interrupts, i)) < 200

\* The step from this state took one emitted half back: the buffer changed
\* without growing.
HalfRemoved == half_levels' # half_levels /\ Len(half_levels') = Len(half_levels)

\* C17 as stated. Stretched-segment compensation: a glitch restore removes a
\* previously emitted half only when the pulse before the glitch lasts
\* 700..1100 us and the two most recently emitted halves both have the restored
\* (glitch) level.
C17_RemovalNeedsGlitchLevel ==
    [][(AtGlitch /\ HalfRemoved)
        => /\ 700 <= Dur(At(interrupts, i - 1)) /\ Dur(At(interrupts, i - 1)) <= 1100
           /\ half_levels[Len(half_levels)] = Level(At(interrupts, i))
           /\ half_levels[Len(half_levels) - 1] = Level(At(interrupts, i))]_vars

\* C17 as amended. A step at a glitch removes a previously emitted half exactly
\* when the glitch is restored, the pulse before it lasts 700..1100 us and the
\* two most recently emitted halves are equal to each other, hence both of the
\* level opposite to the restored glitch's; the removed half is the last one,
\* the restored half takes its place, and no step removes more than one.
C17_StretchedCompensation ==
    [][AtGlitch
        => LET h == half_levels
               n == Len(half_levels)
               level == Level(At(interrupts, i))
               restorable ==
                   /\ n > 0
                   /\ i + 1 < Len(interrupts)
                   /\ h[n] = Level(At(interrupts, i + 1))
                   /\ Dur(At(interrupts, i + 1)) >= 300
                   /\ level # h[n]
               stretched ==
                   /\ i >= 2
                   /\ 700 <= Dur(At(interrupts, i - 1))
                   /\ Dur(At(interrupts, i - 1)) <= 1100
                   /\ n >= 2
                   /\ h[n - 1] = h[n]
           IN  /\ HalfRemoved = (restorable /\ stretched)
               /\ HalfRemoved =>
                     /\ h[n] = 1 - level /\ h[n - 1] = 1 - level
                     /\ half_levels' = SubSeq(h, 1, n - 1) \o <<level>>
               /\ Len(half_levels') >= n
               /\ SubSeq(half_levels', 1, n - 1) = SubSeq(h, 1, n - 1)]_vars

C17_Witness ==
    /\ Len(log) >= 2
    /\ log[Len(log) - 1].tag = "GlitchFix"
    /\ log[Len(log) - 1].dur >= 700
    /\ log[Len(log) - 1].dur <= 1100
    /\ Last(log).tag = "GlitchRestore"
    /\ Len(half_levels) >= 2
    /\ Last(half_levels) = Level(At(interrupts, i - 1))
    /\ half_levels[Len(half_levels) - 1] = 1 - Last(half_levels)


\* C18. Glitch restore condition: a pulse shorter than 200 us that the cursor
\* reaches is emitted as exactly one half of its own level if and only if a half
\* has already been emitted, a next pulse exists, the last emitted half has the
\* next pulse's level, the next pulse lasts at least 300 us and the glitch's
\* level differs from the last emitted half; otherwise the buffer is left as it
\* is. Either way the cursor advances by one and the run goes on.
C18_GlitchRestore ==
    [][AtGlitch
        => LET h == half_levels
               n == Len(half_levels)
               level == Level(At(interrupts, i))
               restore ==
                   /\ n >= 1
                   /\ i + 1 < Len(interrupts)
                   /\ h[n] = Level(At(interrupts, i + 1))
                   /\ Dur(At(interrupts, i + 1)) >= 300
                   /\ level # h[n]
           IN  /\ i' = i + 1
               /\ pc' = "loop"
               /\ result' = result
               /\ IF restore
                  THEN /\ half_levels' # h
                       /\ Last(half_levels') = level
                       /\ Front(half_levels') \in {h, Front(h)}
                       /\ Last(NewLines).tag = "GlitchRestore"
                  ELSE /\ half_levels' = h
                       /\ NewLines = <<Ev("GlitchSkip", i, Dur(At(interrupts, i)), 0)>>]_vars

C18_Witness ==
    /\ pc = "loop"
    /\ Len(log) >= 2
    /\ Last(log).tag = "GlitchRestore"
    /\ log[Len(log) - 1].tag # "GlitchFix"
    /\ Last(log).idx = i - 1
    /\ Len(half_levels) >= 2
    /\ Last(half_levels) = Level(At(interrupts, i - 1))
    /\ half_levels[Len(half_levels) - 1] = Level(At(interrupts, i))
    /\ Dur(At(interrupts, i)) >= 300


\* The cursor is in the main loop at a pulse of 200 us or more.
AtSegment ==
    /\ pc = "loop"
    /\ i < Len(interrupts)
    /\ Len(half_levels) < 68
    /\ Dur(At(interrupts, i)) >= 200

\* The step from this state emitted a half of the level opposite to the pulse
\* at the cursor: the flip was applied.
FlipApplied ==
    \E k \in (Len(half_levels) + 1)..Len(half_levels') :
        half_levels'[k] # Level(At(interrupts, i))

\* The shape the emission-side check tests at index m for a segment of the
\* given level: pulse m + 1 of that level and one-half sized, pulse m + 2 a
\* glitch of the other level.
FlipShape(m, level) ==
    /\ m + 2 < Len(interrupts)
    /\ Level(At(interrupts, m + 1)) = level
    /\ 300 <= Dur(At(interrupts, m + 1)) /\ Dur(At(interrupts, m + 1)) <= 700
    /\ Dur(At(interrupts, m + 2)) < 200
    /\ Level(At(interrupts, m + 2)) # level

\* C19. Flip pattern guard: a step applies the flip only when, at the index m
\* the segment ends at, pulse m + 1 has the segment's level and is one-half
\* sized, pulse m + 2 is a glitch of the opposite level, and pulse m + 3 exists
\* and has the segment's level; a segment for which pulse m + 2 is the last
\* pulse, or pulse m + 3 has the glitch's level, is never followed by a flip.
C19_FlipGuard ==
    [][AtSegment
        => LET level == Level(At(interrupts, i))
               m == i' - 3
           IN  /\ FlipApplied =>
                     /\ m >= i
                     /\ \A k \in i..m : Level(At(interrupts, k)) = level
                     /\ FlipShape(m, level)
                     /\ m + 3 < Len(interrupts)
                     /\ Level(At(interrupts, m + 3)) = level
                     /\ \E k \in 1..Len(NewLines) :
                           NewLines[k].tag = "Flip" /\ NewLines[k].idx = m + 1
               /\ (\E k \in 1..Len(NewLines) : NewLines[k].tag = "Flip") => FlipApplied
               /\ \A q \in i..(Len(interrupts) - 1) :
                     ((\A k \in i..q : Level(At(interrupts, k)) = level)
                        /\ FlipShape(q, level)
                        /\ (q + 3 >= Len(interrupts)
                              \/ Level(At(interrupts, q + 3)) # level))
                     => (~FlipApplied \/ m # q)]_vars

C19_Witness ==
    /\ pc = "loop"
    /\ Len(log) > 0
    /\ Last(log).tag = "Flip"
    /\ i >= 3
    /\ i < Len(interrupts)
    /\ Last(half_levels) = Level(At(interrupts, i - 1))
    /\ Level(At(interrupts, i)) # Level(At(interrupts, i - 1))
    /\ Level(At(interrupts, i - 2)) = Level(At(interrupts, i))
    /\ Dur(At(interrupts, i - 1)) < 200

\* The cases the guard keeps out: the shape with pulse m + 2 the last pulse, and
\* the shape followed by a pulse of the glitch's level.
C19_ShapeAtEnd ==
    /\ AtSegment
    /\ FlipShape(i, Level(At(interrupts, i)))
    /\ i + 3 = Len(interrupts)

C19_ShapeNoReturn ==
    /\ AtSegment
    /\ FlipShape(i, Level(At(interrupts, i)))
    /\ i + 3 < Len(interrupts)
    /\ Level(At(interrupts, i + 3)) # Level(At(interrupts, i))


\* The whole flip pattern at index q: the shape, and pulse q + 3 back at the
\* segment's level.
FullPattern(q, level) ==
    /\ FlipShape(q, level)
    /\ q + 3 < Len(interrupts)
    /\ Level(At(interrupts, q + 3)) = level

\* The segment that starts at the cursor runs to index q and the flip pattern
\* matches there, and at no index of the segment before q.
FlipMatchesAt(q) ==
    LET level == Level(At(interrupts, i))
    IN  /\ \A k \in i..q : Level(At(interrupts, k)) = level
        /\ FullPattern(q, level)
        /\ \A r \in i..(q - 1) : ~FullPattern(r, level)

\* n copies of a level.
Copies(level, n) == [k \in 1..n |-> level]

\* 1 for 300 <= d < 700, 2 for 700 <= d <= 1300, 0 otherwise.
HalvesOf(d) ==
    IF 300 <= d /\ d < 700 THEN 1 ELSE IF 700 <= d /\ d <= 1300 THEN 2 ELSE 0

\* C20 as stated. Flip emission order: when the flip pattern matches for the
\* segment at the cursor, the buffer gains the segment's 1 or 2 halves of its
\* level, then 1 half (pulses m + 1 and m + 2 sum below 700) or 2 halves
\* (700 or more) of the glitch's level, and the cursor moves to m + 3; an
\* invalid segment fails with InvalidDuration and emits nothing.
C20_FlipEmitsAllHalves ==
    [][AtSegment
        => \A q \in i..(Len(interrupts) - 1) :
             FlipMatchesAt(q)
             => LET level == Level(At(interrupts, i))
                    n == HalvesOf(SumDur(interrupts, i, q))
                    f == Dur(At(interrupts, q + 1)) + Dur(At(interrupts, q + 2))
                IN  IF n = 0
                    THEN /\ result' = None
                         /\ Last(log').tag = "InvalidDuration"
                         /\ half_levels' = half_levels
                    ELSE /\ half_levels' = half_levels \o Copies(level, n)
                                \o Copies(1 - level, IF f < 700 THEN 1 ELSE 2)
                         /\ i' = q + 3
                         /\ pc' = "loop"]_vars

\* C20 as amended. The same order, under the cap of 68: the segment's halves
\* are appended while the buffer holds fewer than 68, the first flipped half is
\* appended whatever the buffer holds, and the second flipped half (sum of 700
\* or more) only while the buffer holds fewer than 68; the cursor moves to
\* m + 3, a pulse that exists. An invalid segment fails with InvalidDuration
\* before any half is emitted.
C20_FlipEmissionOrder ==
    [][AtSegment
        => \A q \in i..(Len(interrupts) - 1) :
             FlipMatchesAt(q)
             => LET level == Level(At(interrupts, i))
                    n == HalvesOf(SumDur(interrupts, i, q))
                    f == Dur(At(interrupts, q + 1)) + Dur(At(interrupts, q + 2))
                    own == Min(n, 68 - Len(half_levels))
                    flipped == IF f >= 700 /\ Len(half_levels) + own + 1 < 68
                               THEN 2 ELSE 1
                IN  IF n = 0
                    THEN /\ result' = None
                         /\ pc' = "done"
                         /\ Last(log').tag = "InvalidDuration"
                         /\ half_levels' = half_levels
                    ELSE /\ half_levels' = half_levels \o Copies(level, own)
                                \o Copies(1 - level, flipped)
                         /\ i' = q + 3
                         /\ i' < Len(interrupts)
                         /\ pc' = "loop"
                         /\ result' = result]_vars

C20_Witness ==
    /\ pc = "loop"
    /\ Len(log) >= 2
    /\ Last(log).tag = "Flip"
    /\ Last(log).n = 2
    /\ log[Len(log) - 1].tag = "Segment"
    /\ log[Len(log) - 1].n = 1
    /\ Len(half_levels) >= 3
    /\ Len(half_levels) < 68
    /\ Last(half_levels) = half_levels[Len(half_levels) - 1]
    /\ half_levels[Len(half_levels) - 2] = 1 - Last(half_levels)
    /\ i < Len(interrupts)
    /\ Level(At(interrupts, i)) = half_levels[Len(half_levels) - 2]
    /\ Level(At(interrupts, i - 1)) = Last(half_levels)
    /\ Dur(At(interrupts, i - 1)) < 200

\* The index at which the same-level run that starts at pulse s ends: the last
\* pulse of the run, or the first pulse of it at which the whole flip pattern
\* begins.
RunEnd(s) ==
    LET level == Level(At(interrupts, s))
    IN  CHOOSE q \in s..(Len(interrupts) - 1) :
            /\ \A k \in s..q : Level(At(interrupts, k)) = level
            /\ \A r \in s..(q - 1) : ~FullPattern(r, level)
            /\ \/ q + 1 >= Len(interrupts)
               \/ Level(At(interrupts, q + 1)) # level
               \/ FullPattern(q, level)

GlitchTags == {"GlitchSkip", "GlitchRestore", "GlitchFix"}

\* C21. Same-level run merge: at a pulse of 200 us or more the step consumes
\* every following pulse of the same level, short ones included, up to the end
\* of the run or to the pulse at which a flip pattern begins, and classifies the
\* segment once by the sum of the durations; no pulse of a merged run is ever
\* dropped or restored as a glitch of its own.
C21_SameLevelMerge ==
    /\ [][AtSegment
            => LET level == Level(At(interrupts, i))
                   q == RunEnd(i)
                   d == SumDur(interrupts, i, q)
                   n == HalvesOf(d)
                   got == Min(n, 68 - Len(half_levels))
                   classified == {k \in 1..Len(NewLines) :
                                    NewLines[k].tag \in {"Segment", "InvalidDuration"}}
               IN  /\ Cardinality(classified) = 1
                   /\ \A k \in classified :
                        /\ NewLines[k].dur = d
                        /\ NewLines[k].tag = "Segment" => NewLines[k].n = n
                        /\ (NewLines[k].tag = "InvalidDuration") = (n = 0)
                   /\ \A k \in 1..Len(NewLines) : NewLines[k].tag \notin GlitchTags
                   /\ IF n = 0
                      THEN pc' = "done" /\ half_levels' = half_levels
                      ELSE /\ i' > q
                           /\ Len(half_levels') >= Len(half_levels) + got
                           /\ SubSeq(half_levels', 1, Len(half_levels) + got)
                                 = half_levels \o Copies(level, got)]_vars
    /\ [](\A a, b \in 1..Len(log) :
            (log[a].tag \in GlitchTags /\ log[b].tag = "Segment")
            => ~(log[b].idx <= log[a].idx /\ log[a].idx <= RunEnd(log[b].idx)))

\* A run of two or more pulses with a pulse shorter than 200 us in it was
\* merged and classified as one segment.
C21_Witness ==
    /\ pc = "loop"
    /\ Len(log) >= 2
    /\ Last(log).tag = "Segment"
    /\ log[Len(log) - 1].tag = "Merge"
    /\ Last(log).n = 1
    /\ i - 1 > Last(log).idx
    /\ \E k \in (Last(log).idx + 1)..(i - 1) : Dur(At(interrupts, k)) < 200
    /\ Last(log).dur = SumDur(interrupts, Last(log).idx, i - 1)

\* A merge that stopped at the pulse a flip pattern begins at, after it had
\* consumed a pulse.
C21_StoppedAtPattern ==
    /\ pc = "loop"
    /\ Len(log) >= 4
    /\ Last(log).tag = "Flip"
    /\ log[Len(log) - 2].tag = "Merge"
    /\ log[Len(log) - 3].tag = "Pattern"

\* The cursor is in the main loop and the loop's condition holds.
InLoop == pc = "loop" /\ i < Len(interrupts) /\ Len(half_levels) < 68

\* Every iteration of the main loop prints exactly one of these lines.
IterationTags == {"GlitchSkip", "GlitchRestore", "Segment", "InvalidDuration"}

\* The iterations of the main loop so far.
Iterations(lg) == Cardinality({k \in 1..Len(lg) : lg[k].tag \in IterationTags})

\* C22. Termination and single pass: every run ends; the cursor starts at 1,
\* never decreases, and every iteration of the main loop that does not return
\* moves it forward by at least 1, so that the loop runs at most len(stream)
\* iterations; no pulse is classified twice: each segment starts at the cursor,
\* and the iteration leaves the cursor past the segment's last pulse (and past
\* the two pulses of its flipped segment, if it had one).
C22_TerminationSinglePass ==
    /\ <>(pc = "done")
    /\ [][pc = "start" => (i' = 1 /\ pc' = "loop")]_vars
    /\ [][pc # "start" => i' >= i]_vars
    /\ [][InLoop => /\ Iterations(NewLines) = 1
                    /\ \/ (pc' = "loop" /\ i' >= i + 1)
                       \/ (pc' = "done" /\ result' = None)]_vars
    /\ [][~InLoop => Iterations(NewLines) = 0]_vars
    /\ [](Iterations(log) <= Len(interrupts))
    /\ [](pc # "start" => (i = 1 \/ i <= Len(interrupts)))
    /\ [][InLoop /\ pc' = "loop"
            => \A k \in 1..Len(NewLines) :
                 NewLines[k].tag = "Segment"
                 => /\ NewLines[k].idx = i
                    /\ i' > RunEnd(i) + (IF Last(NewLines).tag = "Flip" THEN 2 ELSE 0)]_vars

\* A run of many iterations ended with a frame, one of its iterations having
\* moved the cursor by 3.
C22_Witness ==
    /\ pc = "done"
    /\ result.ret = "tuple"
    /\ Logged("Flip")
    /\ Iterations(log) > 30
    /\ Iterations(log) < Len(interrupts)

\* Durations the idle pulse is given instead of its own: of a glitch, of one
\* half, of two halves, and invalid ones.
OtherIdleDurations == {1, 150, 250, 500, 1000, 5000}

\* The lines that name a pulse: the pulse classified, dropped, restored,
\* merged or flipped.
PulseTags ==
    {"Segment", "InvalidDuration", "GlitchSkip", "GlitchRestore", "GlitchFix",
     "Merge", "Pattern", "Flip"}

\* C24. Idle duration independence: a run's outcome (the frame and bits, or
\* the kind of the error) is the outcome of decode_opentherm on the same stream
\* with any other duration of pulse[0]; the cursor is never at pulse[0] in the
\* main loop and no line printed for a pulse names pulse[0].
C24_IdleDurationIndependence ==
    /\ (pc = "done" /\ Len(interrupts) > 0)
          => \A d \in OtherIdleDurations :
               LET other == decode_opentherm(SetDur(interrupts, 0, d))
               IN  /\ other.result = result
                   /\ other.error = ErrorKind
    /\ pc # "start" => i >= 1
    /\ \A k \in 1..Len(log) : log[k].tag \in PulseTags => log[k].idx >= 1

\* A frame was returned from a stream whose idle pulse is HIGH and has a
\* duration that no pulse of a frame may have.
C24_Witness ==
    /\ pc = "done"
    /\ result.ret = "tuple"
    /\ Level(At(interrupts, 0)) = 1
    /\ Classify(Dur(At(interrupts, 0))) = 0
    /\ Logged("StartFix")
    /\ decode_opentherm(SetDur(interrupts, 0, 150)).result = result

\* No pulse after the idle pulse is shorter than 200 us, and the first of them
\* has the other level than the idle pulse.
Collapsible(ints) ==
    /\ Len(ints) >= 2
    /\ \A k \in 1..(Len(ints) - 1) : Dur(At(ints, k)) >= 200
    /\ Level(At(ints, 1)) # Level(At(ints, 0))

\* C25. Merge equivalence with the synthesizer's collapse: for a stream with no
\* pulse shorter than 200 us after the idle pulse and a first pulse of the
\* other level than the idle pulse, the run's outcome (the frame and bits, or
\* the kind of the error) is the outcome of decode_opentherm on the stream
\* collapsed by collapse_runs.
C25_MergeEqualsCollapse ==
    (pc = "done" /\ Collapsible(interrupts) /\ ~CollapseRaises(interrupts))
        => LET collapsed == decode_opentherm(collapse_runs(interrupts))
           IN  /\ collapsed.result = result
               /\ collapsed.error = ErrorKind

\* A frame was returned from a stream that collapse_runs shortens.
C25_Witness ==
    /\ pc = "done"
    /\ Collapsible(interrupts)
    /\ Len(collapse_runs(interrupts)) < Len(interrupts)
    /\ Logged("Merge")
    /\ result.ret = "tuple"

\* A run failed on a stream that collapse_runs shortens, after the merge of a
\* pulse that is invalid on its own into a valid segment.
C25_MergedInvalidPulse ==
    /\ pc = "done"
    /\ Collapsible(interrupts)
    /\ result = None
    /\ ErrorKind # "InvalidDuration"
    /\ \E k \in 1..Len(log) :
          /\ log[k].tag = "Merge"
          /\ Classify(log[k].dur) # 0
          /\ Classify(Dur(At(interrupts, log[k].idx))) = 0

\* C26. In-range access: every pulse index a step reads is in 0..len - 1 and
\* every half-bit index it reads is inside the collected buffer (the
\* look-aheads at i + 1, i + 2 and i + 3, the look-back at i - 1,
\* half_levels[-1], half_levels[-2] and half_levels[66] included), the
\* Manchester loop and the checks after it read inside the 68 halves and the
\* 34 bits; a stream of no pulse or of one pulse fails with
\* HalfCountMismatch.
C26_InRangeAccess ==
    LET pulses == 0..(Len(interrupts) - 1)
        halves == 0..(Len(half_levels) - 1)
    IN  /\ pc = "start" => StartFixReads(interrupts) \subseteq pulses
        /\ InLoop => /\ PulseReads(interrupts, i, half_levels) \subseteq pulses
                     /\ HalfReads(interrupts, i, half_levels) \subseteq halves
        /\ (pc = "loop" /\ ~InLoop) => EndFixReads(half_levels) \subseteq halves
        /\ pc = "manchester" => ManchesterReads(half_levels) \subseteq halves
        /\ pc = "validate" => BitReads(bits) \subseteq 0..(Len(bits) - 1)
        /\ (pc = "done" /\ Len(interrupts) <= 1)
              => (result = None /\ ErrorKind = "HalfCountMismatch")

\* The merge loop's look-ahead read the last pulse of the stream as the
\* glitch of a flip pattern: there is no pulse i + 3.
C26_Witness ==
    /\ InLoop
    /\ ~IsGlitch(interrupts, i)
    /\ i + 2 = Len(interrupts) - 1
    /\ i + 2 \in PulseReads(interrupts, i, half_levels)
    /\ FlipShape(i, Level(At(interrupts, i)))

\* The empty stream, and a stream of one pulse, failed with HalfCountMismatch.
C26_EmptyStream ==
    pc = "done" /\ interrupts = <<>> /\ result = None /\ ErrorKind = "HalfCountMismatch"

C26_SinglePulse ==
    pc = "done" /\ Len(interrupts) = 1 /\ result = None /\ ErrorKind = "HalfCountMismatch"

\* A glitch was restored with one half in the buffer: there is no
\* half_levels[-2].
C26_RestoreWithOneHalf ==
    /\ InLoop
    /\ IsGlitch(interrupts, i)
    /\ Len(half_levels) = 1
    /\ i + 1 < Len(interrupts)
    /\ RestoreCond(interrupts, i, half_levels)

\* The key of a message: its direction, message type, data id and frame value.
KeyOf(m) == <<m.direction, m.msg_type, m.data_id, m.message>>

\* The requests among the first n messages that the next message answered: a
\* request is pending exactly until the next message arrives.
CompletedPairs(n) ==
    {k \in 1..(n - 1) :
        messages[k].direction = "REQUEST" /\ messages[k + 1].direction = "RESPONSE"}

PairKeyAt(k) == <<KeyOf(messages[k]), KeyOf(messages[k + 1])>>

MostRecent(S) == CHOOSE k \in S : \A j \in S : j <= k

\* C23. PairDeduper suppression: a request is pending exactly when the last
\* message was a REQUEST; when a RESPONSE arrives then, handle_message returns
\* nothing if and only if the pair's key (request key, response key) equals the
\* key of the most recent pair completed before, whatever arrived in between;
\* otherwise it returns the request's line and the response's line, in this
\* order, and remembers the pair's key.
C23_PairSuppression ==
    /\ [](pending_req # Nothing
            <=> (Len(messages) > 0 /\ messages[Len(messages)].direction = "REQUEST"))
    /\ [][(/\ Len(messages') = Len(messages) + 1
           /\ Len(messages) > 0
           /\ messages[Len(messages)].direction = "REQUEST"
           /\ messages'[Len(messages) + 1].direction = "RESPONSE")
          => LET n == Len(messages)
                 key == <<KeyOf(messages[n]), KeyOf(messages'[n + 1])>>
                 before == CompletedPairs(n)
                 same == before # {} /\ PairKeyAt(MostRecent(before)) = key
             IN  /\ (last_return' = <<>>) = same
                 /\ ~same => /\ last_return' = <<n, n + 1>>
                             /\ last_pair_key' = key
                 /\ same => last_pair_key' = last_pair_key
                 /\ printed' = printed \o last_return'
                 /\ pending_req' = Nothing]_vars

\* A pair was suppressed although a status line and an unanswered request
\* arrived after the pair of the same key.
C23_Witness ==
    /\ Len(messages) = 6
    /\ messages[1].direction = "REQUEST"
    /\ messages[2].direction = "RESPONSE"
    /\ messages[3].direction = "STATUS"
    /\ messages[4].direction = "REQUEST"
    /\ messages[4] # messages[1]
    /\ messages[5] = messages[1]
    /\ messages[6] = messages[2]
    /\ last_return = <<>>
    /\ printed = <<1, 2, 3, 4>>

\* A pair that differs from the pair before it in the response's frame value
\* only was printed.
C23_DiffersInMessageOnly ==
    /\ Len(messages) = 4
    /\ messages[1].direction = "REQUEST"
    /\ messages[3] = messages[1]
    /\ messages[2].direction = "RESPONSE"
    /\ messages[4].direction = "RESPONSE"
    /\ messages[4] # messages[2]
    /\ printed = <<1, 2, 3, 4>>

\* C27. PairDeduper ordering: the lines printed so far are lines of messages
\* that arrived, each at most once and in the order of arrival; when a call
\* prints anything while a request is held, the held request's line comes
\* first.
C27_PairOrdering ==
    /\ [](\A a \in 1..Len(printed) : printed[a] \in 1..Len(messages))
    /\ [](\A a, b \in 1..Len(printed) : a < b => printed[a] < printed[b])
    /\ [][(messages' # messages /\ pending_req # Nothing /\ printed' # printed)
            => /\ Len(printed') > Len(printed)
               /\ printed'[Len(printed) + 1] = pending_req[1]
               /\ SubSeq(printed', 1, Len(printed)) = printed]_vars

\* A held request was printed when the next request arrived, a pair was
\* printed, the same pair was suppressed, and a status line was printed after.
C27_Witness ==
    /\ Len(messages) = 6
    /\ messages[1].direction = "REQUEST"
    /\ messages[2].direction = "REQUEST"
    /\ messages[3].direction = "RESPONSE"
    /\ messages[6].direction = "STATUS"
    /\ printed = <<1, 2, 3, 6>>

====
